---------------------------- MODULE Spec2Model ----------------------------
(***************************************************************************)
(* A model of pyshipstation: the naming converter, the validation helpers, *)
(* the domain entities and the two API facades (shipstation/models.py,     *)
(* shipstation/api.py, shipstation/aio.py).                                *)
(*                                                                         *)
(* Python strings are TLA+ strings; a character is a string of length 1.   *)
(***************************************************************************)
EXTENDS Integers, Sequences, FiniteSets, TLC

VARIABLES
    nm,     \* naming scenario: a name and its conversions
    ent,    \* entity scenario: the object the caller holds (or None)
    res,    \* entity scenario: the last call and how it ended
    client, \* facade scenario: the ShipStation client (or None)
    call    \* facade scenario: the last call, how it ended, the requests it made

vars == <<nm, ent, res, client, call>>

(***************************************************************************)
(* Python values.  Every value is a record tagged by its type in field t;  *)
(* each payload field holds one TLA+ type only.                            *)
(***************************************************************************)
None == [t |-> "none"]
Str(s) == [t |-> "str", s |-> s]
Bool(b) == [t |-> "bool", b |-> b]
IntV(n) == [t |-> "int", n |-> n]
Decimal(n) == [t |-> "Decimal", q |-> n]
\* a float, held as its number of thousandths; the floats used are multiples
\* of 1/8, which binary floating point holds exactly
Float(m) == [t |-> "float", m |-> m]
Dict(d) == [t |-> "dict", d |-> d]
List(l) == [t |-> "list", l |-> l]
\* an instance: its class, its slot values (an unassigned slot is outside the
\* domain) and its instance __dict__
Instance(cls, slots, dict) == [t |-> "instance", cls |-> cls, slots |-> slots, dict |-> dict]
\* a str holding the JSON text of v
JsonStr(v) == [t |-> "str", json |-> v]
\* a requests.Response whose body decodes to v
Response(v) == [t |-> "Response", body |-> v]

\* a response body that is not JSON
NotJson == [t |-> "notjson"]

Empty == [k \in {} |-> None]

\* bool(v)
Truthy(v) ==
    CASE v.t = "none" -> FALSE
      [] v.t = "str" -> IF "s" \in DOMAIN v THEN v.s # "" ELSE TRUE
      [] v.t = "bool" -> v.b
      [] v.t = "int" -> v.n # 0
      [] v.t = "Decimal" -> v.q # 0
      [] v.t = "float" -> v.m # 0
      [] v.t = "dict" -> DOMAIN v.d # {}
      [] v.t = "list" -> v.l # <<>>
      [] OTHER -> TRUE

\* the classes of shipstation.models that the model instantiates, each with
\* its base class
BaseOf(cls) ==
    IF cls = "ShipStationCarrierService" THEN "ShipStationCarrierPackage"
    ELSE "ShipStationBase"

\* isinstance(v, type)
IsInstance(v, type) ==
    CASE v.t = "none" -> FALSE
      [] v.t = "instance" -> type \in {v.cls, BaseOf(v.cls), "ShipStationBase"}
      [] v.t = "bool" -> type \in {"bool", "int"}
      [] OTHER -> type = v.t

\* how a call ends: it returns ret, or raises exc at the named place
Ok(ret) == [status |-> "ok", exc |-> "", at |-> "", ret |-> ret]
Raise(exc, at) == [status |-> "raised", exc |-> exc, at |-> at, ret |-> None]

\* one statement after another: when d raised, the body ends as d did;
\* otherwise rest goes on with what d returned
Then(d, rest(_)) == IF d.status # "ok" THEN d ELSE rest(d.ret)

\* the same for a method whose outcome comes paired with self afterwards
ThenSelf(d, rest(_)) == IF d.out.status # "ok" THEN d ELSE rest(d.self)

\* the checks that precede a request: when d raised, the call ends as d did,
\* having made no request
Checked(d, rest(_)) == IF d.status # "ok" THEN [out |-> d, reqs |-> <<>>] ELSE rest(d.ret)

\* body with the value v bound to its name
With(v, body(_)) == body(v)

ResIdle == [op |-> "idle", arg |-> None, out |-> Ok(None)]
CallIdle == [op |-> "idle", args |-> <<>>, answer |-> None, out |-> Ok(None), reqs |-> <<>>]

(***************************************************************************)
(* Characters                                                              *)
(***************************************************************************)
Lowers == "abcdefghijklmnopqrstuvwxyz"
Uppers == "ABCDEFGHIJKLMNOPQRSTUVWXYZ"
Digits == "0123456789"

CharAt(s, i) == SubSeq(s, i, i)

CharsOf(s) == {CharAt(s, i) : i \in 1..Len(s)}

LowerChars == CharsOf(Lowers)
UpperChars == CharsOf(Uppers)
DigitChars == CharsOf(Digits)

IsLowerChar(c) == c \in LowerChars
IsUpperChar(c) == c \in UpperChars
IsDigitChar(c) == c \in DigitChars

\* the lower-case and upper-case forms of the letters
ToLower == [c \in UpperChars |-> CharAt(Lowers, CHOOSE i \in 1..Len(Uppers) : CharAt(Uppers, i) = c)]
ToUpper == [c \in LowerChars |-> CharAt(Uppers, CHOOSE i \in 1..Len(Lowers) : CharAt(Lowers, i) = c)]

\* str.lower() and str.upper() on one character
LowerChar(c) == IF IsUpperChar(c) THEN ToLower[c] ELSE c
UpperChar(c) == IF IsLowerChar(c) THEN ToUpper[c] ELSE c

RECURSIVE StrLower(_)
StrLower(s) == IF s = "" THEN "" ELSE LowerChar(Head(s)) \o StrLower(Tail(s))

\* str.title(): a cased character is upper-cased when the character before it
\* is not cased (or there is none), lower-cased otherwise.
RECURSIVE TitleFrom(_, _)
TitleFrom(s, prevCased) ==
    IF s = "" THEN ""
    ELSE LET c == Head(s)
             cased == IsLowerChar(c) \/ IsUpperChar(c)
         IN (IF ~cased THEN c
             ELSE IF prevCased THEN LowerChar(c) ELSE UpperChar(c))
            \o TitleFrom(Tail(s), cased)

StrTitle(s) == TitleFrom(s, FALSE)

\* str.split(sep) for a one-character separator
RECURSIVE SplitFrom(_, _, _)
SplitFrom(s, sep, cur) ==
    IF s = "" THEN <<cur>>
    ELSE IF Head(s) = sep THEN <<cur>> \o SplitFrom(Tail(s), sep, "")
    ELSE SplitFrom(Tail(s), sep, cur \o Head(s))

StrSplit(s, sep) == SplitFrom(s, sep, "")

RECURSIVE JoinTitled(_)
JoinTitled(tokens) ==
    IF tokens = <<>> THEN ""
    ELSE StrTitle(Head(tokens)) \o JoinTitled(Tail(tokens))

(***************************************************************************)
(* Naming converter                                                        *)
(***************************************************************************)
to_camel_case(name) ==
    LET tokens == StrSplit(StrLower(name), "_")
        first_word == Head(tokens)
    IN first_word \o JoinTitled(Tail(tokens))

\* snake_case_regex.sub(r"\1_\2", name): leftmost, non-overlapping matches of
\* ([a-z0-9])([A-Z])
RECURSIVE RegexSub(_)
RegexSub(s) ==
    IF Len(s) < 2 THEN s
    ELSE LET a == CharAt(s, 1)
             b == CharAt(s, 2)
         IN IF (IsLowerChar(a) \/ IsDigitChar(a)) /\ IsUpperChar(b)
            THEN a \o "_" \o b \o RegexSub(SubSeq(s, 3, Len(s)))
            ELSE a \o RegexSub(Tail(s))

\* a converter that forgets the final .lower()
to_snake_case_keeps_case(name) == RegexSub(name)

to_snake_case(name) == StrLower(RegexSub(name))

(***************************************************************************)
(* Instances and attribute access                                          *)
(***************************************************************************)
SeqToSet(q) == {q[i] : i \in 1..Len(q)}

\* the classes that declare __slots__, with the declared names
ShipStationWeight_slots ==
    <<"units", "value", "WeightUnits">>

ShipStationAddress_slots ==
    <<"name", "company", "street1", "street2", "street3", "city", "state",
      "postal_code", "country", "phone", "residential">>

ShipStationOrder_slots ==
    <<"advanced_options", "amount_paid", "batch_number", "bill_to",
      "carrier_code", "confirmation", "create_date", "customer_email",
      "customer_notes", "customer_username", "dimensions", "form_data",
      "gift", "insurance_cost", "insurance_options", "internal_notes",
      "international_options", "is_return_label", "items", "label_data",
      "marketplace_notified", "notify_error_message", "order_date",
      "order_id", "order_key", "order_number", "order_status",
      "package_code", "payment_date", "payment_method", "service_code",
      "ship_date", "ship_to", "shipment_cost", "shipment_id",
      "shipment_items", "shipping_amount", "tax_amount", "tracking_number",
      "user_id", "void_date", "voided", "warehouse_id", "weight">>

ShipStationUser_slots ==
    <<"name", "user_id", "user_name">>

ShipStationCarrierPackage_slots ==
    <<"carrier_code", "code", "domestic", "international", "name">>

ShipStationStore_slots ==
    <<"store_id", "store_name", "marketplace_id", "marketplace_name",
      "account_name", "email", "integration_url", "active", "company_name",
      "phone", "public_email", "website", "refresh_date",
      "last_refresh_attempt", "create_date", "modify_date", "auto_refresh",
      "status_mappings">>

ShipStationWarehouse_slots ==
    <<"create_date", "ext_inventory_identity", "is_default",
      "origin_address", "return_address", "register_fedex_meter",
      "seller_integration_id", "warehouse_id", "warehouse_name">>

ShipStationCustomer_slots ==
    <<"address_verified", "city", "company", "country_code", "create_date",
      "customer_id", "email", "marketplace_usernames", "modify_date",
      "name", "phone", "postal_code", "state", "street1", "street2", "tags">>

ShipStationMarketplaceUsername_slots ==
    <<"create_date", "customer_id", "customer_user_id", "marketplace",
      "marketplace_id", "modify_date", "username">>

ShipStationCarrier_slots ==
    <<"account_number", "balance", "code", "name", "nickname", "primary",
      "requires_funded_account", "shipping_provider_id">>

ShipStationWebhook_slots ==
    <<"active", "is_label_apihook", "web_hook_id", "seller_id", "hook_type",
      "message_format", "url", "name", "bulk_copy_batch_id",
      "bulk_copy_record_id", "webhook_logs", "seller", "store", "store_id">>

ShipStationMarketplace_slots ==
    <<"can_confirm_shipments", "can_refresh", "marketplace_id", "name",
      "supports_custom_mappings", "supports_custom_statuses">>

SlottedClasses ==
    {"ShipStationWeight", "ShipStationAddress", "ShipStationOrder", "ShipStationUser",
     "ShipStationCarrierPackage", "ShipStationCarrierService", "ShipStationStore",
     "ShipStationWarehouse", "ShipStationCustomer", "ShipStationMarketplaceUsername",
     "ShipStationCarrier", "ShipStationWebhook", "ShipStationMarketplace"}

\* cls.__slots__ (ShipStationCarrierService inherits the attribute)
SlotsOf(cls) ==
    CASE cls = "ShipStationWeight" -> ShipStationWeight_slots
      [] cls = "ShipStationAddress" -> ShipStationAddress_slots
      [] cls = "ShipStationOrder" -> ShipStationOrder_slots
      [] cls = "ShipStationUser" -> ShipStationUser_slots
      [] cls \in {"ShipStationCarrierPackage", "ShipStationCarrierService"} ->
            ShipStationCarrierPackage_slots
      [] cls = "ShipStationStore" -> ShipStationStore_slots
      [] cls = "ShipStationWarehouse" -> ShipStationWarehouse_slots
      [] cls = "ShipStationCustomer" -> ShipStationCustomer_slots
      [] cls = "ShipStationMarketplaceUsername" -> ShipStationMarketplaceUsername_slots
      [] cls = "ShipStationCarrier" -> ShipStationCarrier_slots
      [] cls = "ShipStationWebhook" -> ShipStationWebhook_slots
      [] cls = "ShipStationMarketplace" -> ShipStationMarketplace_slots
      [] OTHER -> <<>>

\* the fields an entity type declares: its __slots__, or for a class without
\* __slots__ the attributes its constructor assigns
DeclaredFields(cls) ==
    CASE cls \in SlottedClasses -> SeqToSet(SlotsOf(cls))
      [] cls = "ShipStationCustomsItem" ->
            {"description", "quantity", "value", "harmonized_tariff_code", "country_of_origin"}
      [] cls = "ShipStationInternationalOptions" -> {"customs_items", "contents", "non_delivery"}
      [] cls = "ShipStationContainer" -> {"units", "length", "width", "height", "weight"}
      [] cls = "ShipStationItem" ->
            {"key", "sku", "name", "image_url", "weight", "quantity", "unit_price",
             "warehouse_location", "options"}
      [] OTHER -> {}

\* the attributes an instance holds
AttrsOf(e) == DOMAIN e.slots \cup DOMAIN e.dict

HasAttr(e, a) == a \in AttrsOf(e)

\* getattr(e, a) for an attribute the instance holds: a slot is a data
\* descriptor of the class and is found before the instance __dict__
GetAttr(e, a) == IF a \in DOMAIN e.slots THEN e.slots[a] ELSE e.dict[a]

\* setattr(e, a, v): a declared slot is stored in the slot; any other name goes
\* to the instance __dict__, which every instance has because ShipStationBase
\* declares no __slots__
SetAttr(e, a, v) ==
    IF a \in SeqToSet(SlotsOf(e.cls))
    THEN [e EXCEPT !.slots = (a :> v) @@ e.slots]
    ELSE [e EXCEPT !.dict = (a :> v) @@ e.dict]

\* an instance whose constructor has assigned attrs (a function name -> value)
Construct(cls, attrs) ==
    With(SeqToSet(SlotsOf(cls)), LAMBDA declared :
        Instance(cls,
                 [a \in DOMAIN attrs \cap declared |-> attrs[a]],
                 [a \in DOMAIN attrs \ declared |-> attrs[a]]))

(***************************************************************************)
(* Validation helpers                                                      *)
(***************************************************************************)
\* a check without the early return for None
require_type_rejects_none(item, required_type) ==
    IF ~IsInstance(item, required_type)
    THEN Raise("AttributeError", "require_type")
    ELSE Ok(None)

require_type(item, required_type) ==
    IF item = None THEN Ok(None)
    ELSE IF ~IsInstance(item, required_type)
    THEN Raise("AttributeError", "require_type")
    ELSE Ok(None)

require_attribute(self, attribute) ==
    IF ~HasAttr(self, attribute) THEN Raise("AttributeError", "getattr")
    ELSE IF ~Truthy(GetAttr(self, attribute))
    THEN Raise("AttributeError", "require_attribute")
    ELSE Ok(None)

\* value in other, for a collection of strings
InStrings(value, other) == value.t = "str" /\ "s" \in DOMAIN value /\ value.s \in other

require_membership(value, other) ==
    IF ~InStrings(value, other)
    THEN Raise("AttributeError", "require_membership")
    ELSE Ok(None)

(***************************************************************************)
(* ShipStationBase: conversion to and from the wire form                   *)
(***************************************************************************)
\* {to_camel_case(key): value for key, value in f.items()}.  Two keys with the
\* same camelCase form would collide; the names used here do not.
CamelKeyed(f) ==
    With({<<to_camel_case(k), k>> : k \in DOMAIN f},
         LAMBDA pairs : [ck \in {p[1] : p \in pairs} |->
                            f[(CHOOSE p \in pairs : p[1] = ck)[2]]])

ShipStationBase_as_dict(self) ==
    IF DOMAIN self.dict # {}
    THEN Ok(Dict(CamelKeyed(self.dict)))
    ELSE IF self.cls \notin SlottedClasses
    THEN Raise("AttributeError", "__slots__")
    ELSE With(SeqToSet(SlotsOf(self.cls)), LAMBDA slots :
            IF \E k \in slots : k \notin DOMAIN self.slots
            THEN Raise("AttributeError", "getattr")
            ELSE Ok(Dict(CamelKeyed([k \in slots |-> self.slots[k]]))))

\* what json_str decodes to: Response.json(), json.loads(str), or the object
\* itself
Decoded(json_str) ==
    CASE json_str.t = "Response" ->
            IF json_str.body.t = "notjson" THEN Raise("ValueError", "Response.json")
            ELSE Ok(json_str.body)
      [] json_str.t = "str" ->
            IF "json" \in DOMAIN json_str THEN Ok(json_str.json)
            ELSE Raise("ValueError", "json.loads")
      [] OTHER -> Ok(json_str)

\* for key, value in s.items(): setattr(self, self.to_snake_case(key), value)
SetAll(self, d) ==
    With({<<to_snake_case(k), k>> : k \in DOMAIN d}, LAMBDA pairs :
        LET names == {p[1] : p \in pairs}
            slotted == SeqToSet(SlotsOf(self.cls))
            val(a) == d[(CHOOSE p \in pairs : p[1] = a)[2]]
        IN [self EXCEPT
              !.slots = [a \in (names \cap slotted) \cup DOMAIN self.slots |->
                            IF a \in names THEN val(a) ELSE self.slots[a]],
              !.dict = [a \in (names \ slotted) \cup DOMAIN self.dict |->
                            IF a \in names THEN val(a) ELSE self.dict[a]]])

\* from_json returns self; the pair is the call's outcome and self afterwards
ShipStationBase_from_json(self, json_str) ==
    With(Decoded(json_str), LAMBDA s :
        IF s.status # "ok" THEN [out |-> s, self |-> self]
        ELSE IF s.ret.t # "dict"
        THEN [out |-> Raise("AttributeError", "items"), self |-> self]
        ELSE With(SetAll(self, s.ret.d), LAMBDA after : [out |-> Ok(after), self |-> after]))

\* str(n) for an int
RECURSIVE NatToStr(_)
NatToStr(n) ==
    IF n < 10 THEN CharAt(Digits, n + 1)
    ELSE NatToStr(n \div 10) \o CharAt(Digits, (n % 10) + 1)

IntToStr(n) == IF n < 0 THEN "-" \o NatToStr(-n) ELSE NatToStr(n)

\* what json.dumps accepts
RECURSIVE Serializable(_)
Serializable(v) ==
    CASE v.t \in {"none", "str", "bool", "int", "float"} -> TRUE
      [] v.t = "dict" -> \A k \in DOMAIN v.d : Serializable(v.d[k])
      [] v.t = "list" -> \A i \in 1..Len(v.l) : Serializable(v.l[i])
      [] OTHER -> FALSE

\* json.dumps(v): the JSON text of v, or TypeError
JsonDumps(v) ==
    IF Serializable(v) THEN Ok(JsonStr(v)) ELSE Raise("TypeError", "json.dumps")

\* str(x) of a float of m thousandths: the shortest digits that give it back
FractionDigits(f) ==
    IF f % 100 = 0 THEN NatToStr(f \div 100)
    ELSE IF f % 10 = 0 THEN (IF f < 100 THEN "0" ELSE "") \o NatToStr(f \div 10)
    ELSE (IF f < 10 THEN "00" ELSE IF f < 100 THEN "0" ELSE "") \o NatToStr(f)
FloatToStr(m) ==
    IF m < 0 THEN "-" \o NatToStr((-m) \div 1000) \o "." \o FractionDigits((-m) % 1000)
    ELSE NatToStr(m \div 1000) \o "." \o FractionDigits(m % 1000)

\* one pass of the loop of json(): lines 91-96.  No value is a class object, so
\* the isinstance(value, type) branch is never taken.
Coerced(value) ==
    CASE value.t = "bool" -> Str(IF value.b THEN "true" ELSE "false")
      [] value.t = "int" -> Str(IntToStr(value.n))
      [] value.t = "Decimal" -> Str(IntToStr(value.q))
      [] value.t = "float" -> Str(FloatToStr(value.m))
      [] OTHER -> value

(***************************************************************************)
(* Entities                                                                *)
(***************************************************************************)
\* shipstation.constants is not among the sources; the members below are the
\* enumerated sets the specification speaks of
ORDER_STATUS_VALUES ==
    {"awaiting_payment", "awaiting_shipment", "shipped", "on_hold", "cancelled"}

\* datetime.datetime.now().isoformat()
NowIso == Str("2019-07-01T12:00:00")

ShipStationWeight_init(units, value) ==
    Construct("ShipStationWeight",
              [units |-> units, value |-> value, WeightUnits |-> None])

ShipStationWeight_as_dict(self) ==
    IF ~HasAttr(self, "value") \/ ~HasAttr(self, "WeightUnits")
    THEN Raise("AttributeError", "getattr")
    ELSE Ok(Dict([value |-> GetAttr(self, "value"), units |-> GetAttr(self, "WeightUnits")]))

ShipStationContainer_init(units, length, width, height) ==
    Construct("ShipStationContainer",
              [units |-> units, length |-> length, width |-> width,
               height |-> height, weight |-> None])

ShipStationItem_init(key, sku, name, image_url, quantity, unit_price, warehouse_location, options) ==
    Construct("ShipStationItem",
              [key |-> key, sku |-> sku, name |-> name, image_url |-> image_url,
               weight |-> None, quantity |-> quantity, unit_price |-> unit_price,
               warehouse_location |-> warehouse_location, options |-> options])

\* ShipStationContainer.as_dict and ShipStationItem.as_dict: with a weight the
\* return expression calls the undefined module-level name __setattr__
WithWeight_as_dict(self) ==
    Then(ShipStationBase_as_dict(self), LAMBDA d :
        IF ~HasAttr(self, "weight") THEN Raise("AttributeError", "getattr")
        ELSE IF Truthy(GetAttr(self, "weight")) THEN Raise("NameError", "__setattr__")
        ELSE Ok(d))

ShipStationAddress_init(name, company, street1, street2, street3, city, state, postal_code, country, phone, residential) ==
    Construct("ShipStationAddress",
              [name |-> name, company |-> company, street1 |-> street1,
               street2 |-> street2, street3 |-> street3, city |-> city,
               state |-> state, postal_code |-> postal_code, country |-> country,
               phone |-> phone, residential |-> residential])

\* the constructors of ShipStationStore, ShipStationWarehouse, ShipStationCustomer,
\* ShipStationMarketplaceUsername, ShipStationMarketplace and ShipStationCarrier
\* called without arguments: every slot is assigned its default, None
AllDefaults_init(cls) == Construct(cls, [a \in SeqToSet(SlotsOf(cls)) |-> None])

\* ShipStationWebhook() assigns every slot but store
ShipStationWebhook_init ==
    Construct("ShipStationWebhook",
              [a \in SeqToSet(ShipStationWebhook_slots) \ {"store"} |-> None])

ShipStationUser_init(name, user_id, user_name) ==
    Construct("ShipStationUser", [name |-> name, user_id |-> user_id, user_name |-> user_name])

ShipStationCarrierPackage_init(cls, carrier_code, code, domestic, international, name) ==
    Construct(cls, [carrier_code |-> carrier_code, code |-> code, domestic |-> domestic,
                    international |-> international, name |-> name])

\* len(v)
PyLen(v) ==
    CASE v.t = "str" /\ "s" \in DOMAIN v -> Ok(IntV(Len(v.s)))
      [] v.t = "list" -> Ok(IntV(Len(v.l)))
      [] v.t = "dict" -> Ok(IntV(Cardinality(DOMAIN v.d)))
      [] OTHER -> Raise("TypeError", "len")

\* the first of the outcomes that raised, or the last one
RECURSIVE FirstRaised(_)
FirstRaised(outs) ==
    IF Len(outs) = 1 \/ Head(outs).status # "ok" THEN Head(outs)
    ELSE FirstRaised(Tail(outs))

\* a constructor that leaves out the length check of country_of_origin
ShipStationCustomsItem_init_no_length(description, quantity, value, harmonized_tariff_code, country_of_origin) ==
    LET self == Construct("ShipStationCustomsItem",
                    [description |-> description, quantity |-> quantity, value |-> value,
                     harmonized_tariff_code |-> harmonized_tariff_code,
                     country_of_origin |-> country_of_origin])
        checks == FirstRaised(<<require_attribute(self, "description"),
                                require_attribute(self, "harmonized_tariff_code"),
                                require_attribute(self, "country_of_origin"),
                                require_attribute(self, "description"),
                                require_type(value, "Decimal")>>)
    IN IF checks.status # "ok" THEN [out |-> checks, self |-> None]
       ELSE [out |-> Ok(self), self |-> self]

\* the outcome of the constructor call and the instance it yields.  The test
\* "len(...) is not 2" compares identities; CPython keeps one object per small
\* int, so it decides as "!= 2" does.
ShipStationCustomsItem_init(description, quantity, value, harmonized_tariff_code, country_of_origin) ==
    LET self == Construct("ShipStationCustomsItem",
                    [description |-> description, quantity |-> quantity, value |-> value,
                     harmonized_tariff_code |-> harmonized_tariff_code,
                     country_of_origin |-> country_of_origin])
        checks == FirstRaised(<<require_attribute(self, "description"),
                                require_attribute(self, "harmonized_tariff_code"),
                                require_attribute(self, "country_of_origin"),
                                require_attribute(self, "description"),
                                require_type(value, "Decimal")>>)
        n == PyLen(country_of_origin)
    IN IF checks.status # "ok" THEN [out |-> checks, self |-> None]
       ELSE IF n.status # "ok" THEN [out |-> n, self |-> None]
       ELSE IF n.ret.n # 2
       THEN [out |-> Raise("AttributeError", "raise"), self |-> None]
       ELSE [out |-> Ok(self), self |-> self]

ShipStationOrder_init(order_key, order_number) ==
    Construct("ShipStationOrder",
        [a \in SeqToSet(ShipStationOrder_slots) |->
            CASE a = "order_number" -> order_number
              [] a = "order_date" -> NowIso
              [] a = "order_key" -> order_key
              [] a = "items" -> List(<<>>)
              [] a \in {"amount_paid", "tax_amount", "shipping_amount"} -> Decimal(0)
              [] OTHER -> None])

\* a setter that drops the membership test
ShipStationOrder_set_status_unchecked(self, status) ==
    IF ~Truthy(status)
    THEN [out |-> Ok(None), self |-> SetAttr(self, "order_status", None)]
    ELSE [out |-> Ok(None), self |-> SetAttr(self, "order_status", status)]

ShipStationOrder_set_status(self, status) ==
    IF ~Truthy(status)
    THEN [out |-> Ok(None), self |-> SetAttr(self, "order_status", None)]
    ELSE IF ~InStrings(status, ORDER_STATUS_VALUES)
    THEN [out |-> Raise("AttributeError", "raise"), self |-> self]
    ELSE [out |-> Ok(None), self |-> SetAttr(self, "order_status", status)]

\* numbers: int, float and Decimal (bool is an int), each by its number of
\* thousandths
IsNumber(v) == v.t \in {"int", "float", "Decimal", "bool"}
NumberOf(v) ==
    CASE v.t = "int" -> v.n * 1000
      [] v.t = "Decimal" -> v.q * 1000
      [] v.t = "float" -> v.m
      [] OTHER -> IF v.b THEN 1000 ELSE 0
\* the number of m thousandths as a float, a Decimal or an int (the Decimals
\* and ints of the model are whole)
NumberValue(m, float, decimal) ==
    IF float THEN Float(m) ELSE IF decimal THEN Decimal(m \div 1000) ELSE IntV(m \div 1000)

\* a * b and a + b; the operands the model supplies are numbers or None, and a
\* float is multiplied by whole numbers only.  Decimal and float do not mix.
Times(a, b) ==
    IF ~(IsNumber(a) /\ IsNumber(b)) \/ {"float", "Decimal"} \subseteq {a.t, b.t}
    THEN Raise("TypeError", "*")
    ELSE Ok(NumberValue((NumberOf(a) * NumberOf(b)) \div 1000,
                        "float" \in {a.t, b.t}, "Decimal" \in {a.t, b.t}))
Plus(a, b) ==
    IF ~(IsNumber(a) /\ IsNumber(b)) \/ {"float", "Decimal"} \subseteq {a.t, b.t}
    THEN Raise("TypeError", "+")
    ELSE Ok(NumberValue(NumberOf(a) + NumberOf(b),
                        "float" \in {a.t, b.t}, "Decimal" \in {a.t, b.t}))

\* round(m thousandths, 2) in thousandths: to the nearest hundredth, a tie to
\* the even one
RoundHalfEven(m) ==
    IF m % 10 < 5 THEN (m \div 10) * 10
    ELSE IF m % 10 > 5 THEN ((m \div 10) + 1) * 10
    ELSE IF (m \div 10) % 2 = 0 THEN (m \div 10) * 10
    ELSE ((m \div 10) + 1) * 10

\* round(weight, 2): an int comes back as it is, a whole Decimal with the same
\* value
Round2(v) == IF v.t = "float" THEN Float(RoundHalfEven(v.m)) ELSE v

\* item.weight.value * item.quantity
ItemWeight(item) ==
    IF item.t # "instance" \/ ~HasAttr(item, "weight")
    THEN Raise("AttributeError", "getattr")
    ELSE LET w == GetAttr(item, "weight")
         IN IF w.t # "instance" \/ ~HasAttr(w, "value") \/ ~HasAttr(item, "quantity")
            THEN Raise("AttributeError", "getattr")
            ELSE Times(GetAttr(w, "value"), GetAttr(item, "quantity"))

\* sum([...]) of line 484, from the running total acc
RECURSIVE SumItemWeights(_, _)
SumItemWeights(items, acc) ==
    IF items = <<>> THEN Ok(acc)
    ELSE Then(ItemWeight(Head(items)), LAMBDA w :
            Then(Plus(acc, w), LAMBDA total : SumItemWeights(Tail(items), total)))

\* a get_weight that returns the sum unrounded
ShipStationOrder_get_weight_unrounded(self) ==
    LET items == GetAttr(self, "items")
        dims == GetAttr(self, "dimensions")
        weighed(v) == Ok(Dict([units |-> Str("ounces"), value |-> v]))
    IN Then(IF items.t # "list" THEN Raise("TypeError", "iter")
            ELSE SumItemWeights(items.l, IntV(0)), LAMBDA sum :
          IF ~Truthy(dims) THEN weighed(sum)
          ELSE IF dims.t # "instance" \/ ~HasAttr(dims, "weight")
          THEN Raise("AttributeError", "getattr")
          ELSE IF ~Truthy(GetAttr(dims, "weight")) THEN weighed(sum)
          ELSE LET w == GetAttr(dims, "weight")
               IN IF w.t # "instance" \/ ~HasAttr(w, "value")
                  THEN Raise("AttributeError", "getattr")
                  ELSE Then(Plus(sum, GetAttr(w, "value")), weighed))

\* dict(units="ounces", value=round(weight, 2)) of the sum of lines 484-486
ShipStationOrder_get_weight(self) ==
    LET items == GetAttr(self, "items")
        dims == GetAttr(self, "dimensions")
        weighed(v) == Ok(Dict([units |-> Str("ounces"), value |-> Round2(v)]))
    IN Then(IF items.t # "list" THEN Raise("TypeError", "iter")
            ELSE SumItemWeights(items.l, IntV(0)), LAMBDA sum :
          IF ~Truthy(dims) THEN weighed(sum)
          ELSE IF dims.t # "instance" \/ ~HasAttr(dims, "weight")
          THEN Raise("AttributeError", "getattr")
          ELSE IF ~Truthy(GetAttr(dims, "weight")) THEN weighed(sum)
          ELSE LET w == GetAttr(dims, "weight")
               IN IF w.t # "instance" \/ ~HasAttr(w, "value")
                  THEN Raise("AttributeError", "getattr")
                  ELSE Then(Plus(sum, GetAttr(w, "value")), weighed))

RECURSIVE AsDict(_)

\* [x.as_dict() for x in q]
RECURSIVE AsDicts(_)
AsDicts(q) ==
    IF q = <<>> THEN Ok(List(<<>>))
    ELSE Then(AsDict(Head(q)), LAMBDA d :
            Then(AsDicts(Tail(q)), LAMBDA rest : Ok(List(<<d>> \o rest.l))))

\* x.as_dict() if x else None
AsDictOrNone(x) == IF Truthy(x) THEN AsDict(x) ELSE Ok(None)

ShipStationInternationalOptions_as_dict(self) ==
    Then(ShipStationBase_as_dict(self), LAMBDA d :
        IF ~HasAttr(self, "customs_items") THEN Raise("AttributeError", "getattr")
        ELSE IF GetAttr(self, "customs_items").t # "list" THEN Raise("TypeError", "iter")
        ELSE Then(AsDicts(GetAttr(self, "customs_items").l), LAMBDA items :
                Ok(Dict(("customsItems" :> items) @@ d.d))))

ShipStationOrder_as_dict(self) ==
    Then(ShipStationBase_as_dict(self), LAMBDA d :
    Then(IF GetAttr(self, "items").t # "list" THEN Raise("TypeError", "iter")
         ELSE AsDicts(GetAttr(self, "items").l), LAMBDA items :
    Then(AsDictOrNone(GetAttr(self, "dimensions")), LAMBDA dimensions :
    Then(AsDictOrNone(GetAttr(self, "bill_to")), LAMBDA billTo :
    Then(AsDictOrNone(GetAttr(self, "ship_to")), LAMBDA shipTo :
    Then(ShipStationOrder_get_weight(self), LAMBDA weight :
    Then(AsDictOrNone(GetAttr(self, "international_options")), LAMBDA internationalOptions :
        Ok(Dict([items |-> items, dimensions |-> dimensions, billTo |-> billTo,
                 shipTo |-> shipTo, weight |-> weight,
                 internationalOptions |-> internationalOptions] @@ d.d)))))))))

\* d[key] = self.<attribute>.as_dict() when the attribute is truthy
WithNestedDict(self, d, attribute, key) ==
    IF d.status # "ok" \/ ~Truthy(GetAttr(self, attribute)) THEN d
    ELSE Then(AsDict(GetAttr(self, attribute)), LAMBDA nested :
            Ok(Dict((key :> nested) @@ d.ret.d)))

ShipStationWarehouse_as_dict(self) ==
    WithNestedDict(self,
                   WithNestedDict(self, ShipStationBase_as_dict(self),
                                  "origin_address", "originAddress"),
                   "return_address", "returnAddress")

\* x.as_dict(): the method of x's class
AsDict(x) ==
    IF x.t # "instance" THEN Raise("AttributeError", "as_dict")
    ELSE CASE x.cls = "ShipStationOrder" -> ShipStationOrder_as_dict(x)
           [] x.cls = "ShipStationWeight" -> ShipStationWeight_as_dict(x)
           [] x.cls \in {"ShipStationContainer", "ShipStationItem"} -> WithWeight_as_dict(x)
           [] x.cls = "ShipStationInternationalOptions" ->
                 ShipStationInternationalOptions_as_dict(x)
           [] x.cls = "ShipStationWarehouse" -> ShipStationWarehouse_as_dict(x)
           [] OTHER -> ShipStationBase_as_dict(x)

ShipStationBase_json(self) ==
    Then(AsDict(self), LAMBDA j :
        IF j.t # "dict" THEN Raise("AttributeError", "items")
        ELSE JsonDumps(Dict([key \in DOMAIN j.d |-> Coerced(j.d[key])])))

ShipStationOrder_json(self) ==
    Then(ShipStationOrder_as_dict(self), JsonDumps)

\* x.json(): the method of x's class
Json(x) ==
    IF x.cls = "ShipStationOrder" THEN ShipStationOrder_json(x)
    ELSE ShipStationBase_json(x)

\* object_type(): the constructor called without arguments
New(object_type) ==
    CASE object_type = "ShipStationUser" -> ShipStationUser_init(None, None, None)
      [] object_type \in {"ShipStationCarrierPackage", "ShipStationCarrierService"} ->
            ShipStationCarrierPackage_init(object_type, None, None, None, None, None)
      [] object_type = "ShipStationAddress" ->
            ShipStationAddress_init(None, None, None, None, None, None, None, None,
                                    None, None, None)
      [] object_type = "ShipStationOrder" -> ShipStationOrder_init(None, None)
      [] object_type \in {"ShipStationStore", "ShipStationWarehouse", "ShipStationCustomer",
                          "ShipStationMarketplaceUsername", "ShipStationCarrier",
                          "ShipStationMarketplace"} ->
            AllDefaults_init(object_type)
      [] object_type = "ShipStationWebhook" -> ShipStationWebhook_init

\* d.<attribute> = <class>().from_json(d.<attribute>) when the attribute is truthy
NestedFromJson(d, attribute, cls) ==
    IF ~Truthy(GetAttr(d, attribute)) THEN [out |-> Ok(d), self |-> d]
    ELSE With(ShipStationBase_from_json(New(cls), GetAttr(d, attribute)), LAMBDA nested :
            IF nested.out.status # "ok" THEN [out |-> nested.out, self |-> d]
            ELSE LET after == SetAttr(d, attribute, nested.out.ret)
                 IN [out |-> Ok(after), self |-> after])

ShipStationWarehouse_from_json(self, json_str) ==
    ThenSelf(ShipStationBase_from_json(self, json_str), LAMBDA d :
        ThenSelf(NestedFromJson(d, "origin_address", "ShipStationAddress"), LAMBDA origin :
            NestedFromJson(origin, "return_address", "ShipStationAddress")))

\* [ShipStationMarketplaceUsername().from_json(i) for i in usernames]
RECURSIVE MarketplaceUsernames(_)
MarketplaceUsernames(usernames) ==
    IF usernames = <<>> THEN Ok(List(<<>>))
    ELSE Then(ShipStationBase_from_json(New("ShipStationMarketplaceUsername"),
                                        Head(usernames)).out, LAMBDA o :
            Then(MarketplaceUsernames(Tail(usernames)), LAMBDA rest :
                Ok(List(<<o>> \o rest.l))))

ShipStationCustomer_from_json(self, json_str) ==
    ThenSelf(ShipStationBase_from_json(self, json_str), LAMBDA d :
        LET usernames == GetAttr(d, "marketplace_usernames")
        IN IF ~Truthy(usernames) THEN [out |-> Ok(d), self |-> d]
           ELSE IF usernames.t # "list"
           THEN [out |-> Raise("TypeError", "iter"), self |-> d]
           ELSE With(MarketplaceUsernames(usernames.l), LAMBDA made :
                   IF made.status # "ok" THEN [out |-> made, self |-> d]
                   ELSE LET after == SetAttr(d, "marketplace_usernames", made.ret)
                        IN [out |-> Ok(after), self |-> after]))

\* x.from_json(json_str): the method of x's class
FromJson(x, json_str) ==
    CASE x.cls = "ShipStationWarehouse" -> ShipStationWarehouse_from_json(x, json_str)
      [] x.cls = "ShipStationCustomer" -> ShipStationCustomer_from_json(x, json_str)
      [] OTHER -> ShipStationBase_from_json(x, json_str)

\* [object_type().from_json(obj) for obj in q]
RECURSIVE FromJsonEach(_, _)
FromJsonEach(q, object_type) ==
    IF q = <<>> THEN Ok(List(<<>>))
    ELSE Then(FromJson(New(object_type), Head(q)).out, LAMBDA o :
            Then(FromJsonEach(Tail(q), object_type), LAMBDA rest :
                Ok(List(<<o>> \o rest.l))))

\* r.json() of line 102: only a Response has the method among the arguments
\* the model supplies
ResponseJson(r) ==
    IF r.t # "Response" THEN Raise("AttributeError", "json")
    ELSE IF r.body.t = "notjson" THEN Raise("ValueError", "Response.json")
    ELSE Ok(r.body)

ShipStationBase_object_list(r, object_type) ==
    IF IsInstance(r, "list") THEN FromJsonEach(r.l, object_type)
    ELSE Then(ResponseJson(r), LAMBDA body :
            Then(IF IsInstance(body, "dict") THEN Ok(<<body>>)
                 ELSE IF body.t # "list" THEN Raise("TypeError", "iter")
                 ELSE Ok(body.l),
                 LAMBDA q : FromJsonEach(q, object_type)))

(***************************************************************************)
(* Specification SpecNames: the converter applied to bounded names         *)
(***************************************************************************)
MaxNameLen == 6

NameChars == {"a", "b", "_", "1"}

RECURSIVE NamesUpTo(_)
NamesUpTo(n) ==
    IF n = 0 THEN {""}
    ELSE LET shorter == NamesUpTo(n - 1)
         IN shorter \cup {s \o c : s \in {t \in shorter : Len(t) = n - 1}, c \in NameChars}

NmIdle == [phase |-> "idle", name |-> "", camel |-> "", snake |-> ""]

InitNames ==
    /\ \E s \in NamesUpTo(MaxNameLen) :
          nm = [phase |-> "input", name |-> s, camel |-> "", snake |-> ""]
    /\ ent = None
    /\ res = ResIdle
    /\ client = None
    /\ call = CallIdle

CallToCamelCase ==
    /\ nm.phase = "input"
    /\ nm' = [nm EXCEPT !.phase = "camel", !.camel = to_camel_case(nm.name)]
    /\ UNCHANGED <<ent, res, client, call>>

CallToSnakeCase ==
    /\ nm.phase = "camel"
    /\ nm' = [nm EXCEPT !.phase = "snake", !.snake = to_snake_case(nm.camel)]
    /\ UNCHANGED <<ent, res, client, call>>

NextNames == CallToCamelCase \/ CallToSnakeCase

SpecNames == InitNames /\ [][NextNames]_vars

\* the segments of a snake_case name
Segments(s) == StrSplit(s, "_")

IsAlphaLower(seg) ==
    /\ seg # ""
    /\ \A i \in 1..Len(seg) : IsLowerChar(CharAt(seg, i))

\* alphabetic lowercase segments separated by single underscores
IsSnakeName(s) == \A i \in 1..Len(Segments(s)) : IsAlphaLower(Segments(s)[i])

\* every segment strictly between the first and the last has two letters or more
InnerSegmentsLong(s) ==
    \A i \in 2..(Len(Segments(s)) - 1) : Len(Segments(s)[i]) >= 2

\* C8 as stated: for every snake_case name s of alphabetic lowercase segments
\* separated by single underscores, to_snake_case(to_camel_case(s)) = s.
C8_RoundTripAll ==
    (nm.phase = "snake" /\ IsSnakeName(nm.name)) => nm.snake = nm.name

\* C8 amended: the round trip to_snake_case(to_camel_case(s)) = s holds for
\* every such name whose segments other than the first and the last have at
\* least two letters (a one-letter inner segment leaves two capitals side by
\* side, and the regex puts no underscore between them).
C8_RoundTripInnerLong ==
    (nm.phase = "snake" /\ IsSnakeName(nm.name) /\ InnerSegmentsLong(nm.name))
        => nm.snake = nm.name

\* a three-segment name with an inner segment has made the round trip
C8_Witness ==
    /\ nm.phase = "snake"
    /\ IsSnakeName(nm.name)
    /\ InnerSegmentsLong(nm.name)
    /\ Len(Segments(nm.name)) = 3
    /\ nm.snake = nm.name

(***************************************************************************)
(* The facades: shipstation/api.py (requests, blocking) and                *)
(* shipstation/aio.py (httpx, coroutines)                                  *)
(***************************************************************************)
\* shipstation.constants is not among the sources.  The parameter and option
\* sets hold the names the sources show in use (the fetch_orders docstring, the
\* options read by the facade, the webhook test) and stand for the whole sets.
ORDER_LIST_PARAMETERS == {"order_status", "page", "page_size", "store_id"}
CUSTOMER_LIST_PARAMETERS == {"state_code", "page", "page_size"}
FULFILLMENT_LIST_PARAMETERS == {"order_id", "page", "page_size"}
SHIPMENT_LIST_PARAMETERS == {"carrier_code", "page", "page_size"}
CREATE_SHIPMENT_LABEL_OPTIONS ==
    {"carrier_code", "service_code", "package_code", "weight", "dimensions",
     "ship_to", "ship_from", "international_options", "advanced_options"}
GET_RATE_OPTIONS ==
    {"carrier_code", "service_code", "package_code", "weight", "dimensions"}
REQUIRED_RATE_OPTIONS == <<"carrier_code", "weight">>
UPDATE_STORE_OPTIONS == <<"store_id", "store_name", "status_mappings">>
UPDATE_WAREHOUSE_OPTIONS == <<"warehouse_id", "warehouse_name", "origin_address">>
CREATE_WAREHOUSE_OPTIONS == {"warehouse_name", "origin_address", "return_address"}
SUBSCRIBE_TO_WEBHOOK_OPTIONS == {"target_url", "event", "store_id", "friendly_name"}
SUBSCRIBE_TO_WEBHOOK_EVENT_OPTIONS == {"ORDER_NOTIFY", "SHIP_NOTIFY"}

\* the places where a validation error is raised: the three helpers and the
\* raise statements of the facade methods and constructors
ValidationPlaces == {"require_type", "require_attribute", "require_membership", "raise"}

IsValidationError(out) == out.status = "raised" /\ out.at \in ValidationPlaces

\* what the transport answers: a response, or a failure to get one
TransportFailure == [t |-> "failure"]

\* one HTTP request; sent tells whether it went to the transport
Request(self, method, endpoint, params, data, sent) ==
    [method |-> method, endpoint |-> endpoint, params |-> params, data |-> data,
     timeout |-> self.timeout, sent |-> sent]

\* how a facade call ends, and the requests it made
Ended(out, reqs) == [out |-> out, reqs |-> reqs]

\* requests.<method>(...) followed by the debug print, which decodes the body
\* for every method but DELETE
Sent(self, method, endpoint, params, data, answer) ==
    LET req == Request(self, method, endpoint, params, data, TRUE)
    IN IF answer = TransportFailure
       THEN Ended(Raise("RequestException", "transport"), <<req>>)
       ELSE IF self.debug /\ method # "DELETE" /\ answer.body = NotJson
       THEN Ended(Raise("ValueError", "Response.json"), <<req>>)
       ELSE Ended(Ok(answer), <<req>>)

Api_get(self, endpoint, payload, answer) == Sent(self, "GET", endpoint, payload, None, answer)
Api_post(self, endpoint, data, answer) == Sent(self, "POST", endpoint, None, data, answer)
Api_put(self, endpoint, data, answer) == Sent(self, "PUT", endpoint, None, data, answer)
Api_delete(self, endpoint, payload, answer) ==
    Sent(self, "DELETE", endpoint, payload, None, answer)

\* calling an async def method makes a coroutine object and runs none of it
Coroutine(req) == [t |-> "coroutine", req |-> req]

Aio_get(self, endpoint, payload) ==
    Coroutine(Request(self, "GET", endpoint, payload, None, FALSE))
Aio_post(self, endpoint, data) ==
    Coroutine(Request(self, "POST", endpoint, None, data, FALSE))
Aio_put(self, endpoint, data) ==
    Coroutine(Request(self, "PUT", endpoint, None, data, FALSE))
Aio_delete(self, endpoint, payload) ==
    Coroutine(Request(self, "DELETE", endpoint, payload, None, FALSE))

\* a call that made the coroutine co and went on without awaiting it
Unawaited(out, co) == Ended(out, <<co.req>>)

\* await co: the body of the async method runs, lines 11-62
Awaited(self, co, answer) ==
    Sent(self, co.req.method, co.req.endpoint, co.req.params, co.req.data, answer)

\* str(v) as the facades use it in endpoints
PyStr(v) ==
    CASE v.t = "int" -> IntToStr(v.n)
      [] v.t = "str" /\ "s" \in DOMAIN v -> v.s
      [] v.t = "none" -> "None"
      [] OTHER -> "<object>"

\* an argument the caller leaves out
Omitted == [t |-> "omitted"]

\* ShipStation.__init__ without the check of secret
ShipStation_init_unchecked_secret(facade, key, secret, debug, timeout) ==
    IF facade = "api" /\ timeout # Omitted
    THEN [out |-> Raise("TypeError", "arguments"), self |-> None]
    ELSE IF key = None THEN [out |-> Raise("AttributeError", "raise"), self |-> None]
    ELSE [out |-> Ok(None),
          self |-> [t |-> "client", facade |-> facade,
                    url |-> "https://ssapi.shipstation.com",
                    key |-> key, secret |-> secret, orders |-> <<>>,
                    timeout |-> IF timeout = Omitted THEN 1 ELSE timeout.n,
                    debug |-> debug]]

\* ShipStation.__init__ of either facade, called with a timeout in seconds or
\* without one: the outcome and the client.  api.py has no timeout parameter,
\* so a call that gives one does not bind, and sets 1.0; aio.py takes one, 1
\* when left out.
ShipStation_init(facade, key, secret, debug, timeout) ==
    IF facade = "api" /\ timeout # Omitted
    THEN [out |-> Raise("TypeError", "arguments"), self |-> None]
    ELSE IF key = None THEN [out |-> Raise("AttributeError", "raise"), self |-> None]
    ELSE IF secret = None THEN [out |-> Raise("AttributeError", "raise"), self |-> None]
    ELSE [out |-> Ok(None),
          self |-> [t |-> "client", facade |-> facade,
                    url |-> "https://ssapi.shipstation.com",
                    key |-> key, secret |-> secret, orders |-> <<>>,
                    timeout |-> IF timeout = Omitted THEN 1 ELSE timeout.n,
                    debug |-> debug]]

\* ShipStationBase._validate_parameters: valid_parameters is not read
validate_parameters(parameters, valid_parameters) ==
    Then(require_type(parameters, "dict"), LAMBDA typed :
        IF parameters.t # "dict" THEN Raise("AttributeError", "items")
        ELSE Ok(Dict(CamelKeyed(parameters.d))))

\* add_order of either facade: the outcome and the client afterwards
ShipStation_add_order(self, order) ==
    LET typed == require_type(order, "ShipStationOrder")
    IN IF typed.status # "ok" THEN [out |-> typed, self |-> self]
       ELSE [out |-> Ok(None), self |-> [self EXCEPT !.orders = Append(@, order)]]

ShipStation_get_orders(self) == Ok(List(self.orders))

\* json.dumps(order.as_dict()) for an element of the accumulator
OrderBody(order) == Then(AsDict(order), JsonDumps)

\* json.dumps(order.as_dict()) for each element of the accumulator; the loop
\* reads the outcome for an order when it reaches that order
RECURSIVE OrderBodies(_)
OrderBodies(orders) ==
    IF orders = <<>> THEN <<>>
    ELSE <<OrderBody(Head(orders))>> \o OrderBodies(Tail(orders))

\* the loop of submit_orders of api.py over the rest of the accumulator: one
\* answer of the transport per order; an exception leaves the loop
RECURSIVE Api_submit_from(_, _, _, _)
Api_submit_from(self, bodies, answers, reqs) ==
    IF bodies = <<>> THEN Ended(Ok(None), reqs)
    ELSE LET data == Head(bodies)
         IN IF data.status # "ok" THEN Ended(data, reqs)
            ELSE LET posted == Api_post(self, "/orders/createorder", data.ret, Head(answers))
                 IN IF posted.out.status # "ok"
                    THEN Ended(posted.out, reqs \o posted.reqs)
                    ELSE Api_submit_from(self, Tail(bodies), Tail(answers),
                                         reqs \o posted.reqs)

Api_submit_orders(self, bodies, answers) == Api_submit_from(self, bodies, answers, <<>>)

\* the loop of submit_orders of aio.py: post() makes a coroutine that nothing
\* awaits
RECURSIVE Aio_submit_from(_, _, _)
Aio_submit_from(self, bodies, reqs) ==
    IF bodies = <<>> THEN Ended(Ok(None), reqs)
    ELSE LET data == Head(bodies)
         IN IF data.status # "ok" THEN Ended(data, reqs)
            ELSE Aio_submit_from(self, Tail(bodies),
                    reqs \o <<Aio_post(self, "/orders/createorder", data.ret).req>>)

Aio_submit_orders(self, bodies) == Aio_submit_from(self, bodies, <<>>)

\* checks that let every key pass
fetch_orders_checks_any_key(parameters) ==
    Then(require_type(parameters, "dict"), LAMBDA typed :
        IF parameters.t # "dict" THEN Raise("AttributeError", "keys")
        ELSE Ok(Dict(CamelKeyed(parameters.d))))

\* the checks of fetch_orders, the same text in both facades: the outcome, with
\* the query parameters when they pass
fetch_orders_checks(parameters) ==
    Then(require_type(parameters, "dict"), LAMBDA typed :
        IF parameters.t # "dict" THEN Raise("AttributeError", "keys")
        ELSE IF DOMAIN parameters.d \ ORDER_LIST_PARAMETERS # {}
        THEN Raise("AttributeError", "raise")
        ELSE Ok(Dict(CamelKeyed(parameters.d))))

Api_fetch_orders(self, parameters, answer) ==
    Checked(fetch_orders_checks(parameters), LAMBDA valid_parameters :
        Api_get(self, "/orders/list", valid_parameters, answer))

Api_list_carriers(self, answer) == Api_get(self, "/carriers/", None, answer)

Api_get_carrier(self, carrier_code, answer) ==
    Api_get(self, "/carriers/getcarrier", Dict([carrierCode |-> carrier_code]), answer)

Api_list_packages(self, carrier_code, answer) ==
    Api_get(self, "/carriers/listpackages", Dict([carrierCode |-> carrier_code]), answer)

Api_list_services(self, carrier_code, answer) ==
    Api_get(self, "/carriers/listservices", Dict([carrierCode |-> carrier_code]), answer)

Api_get_customer(self, customer_id, answer) ==
    Api_get(self, "/customers/customerId", Dict([carrierCode |-> customer_id]), answer)

\* list_customers, list_fulfillments and list_shipments of api.py
Api_list(self, endpoint, parameters, valid, answer) ==
    Checked(validate_parameters(parameters, valid), LAMBDA valid_parameters :
        Api_get(self, endpoint, valid_parameters, answer))

Api_list_customers(self, parameters, answer) ==
    Api_list(self, "/customers", parameters, CUSTOMER_LIST_PARAMETERS, answer)
Api_list_fulfillments(self, parameters, answer) ==
    Api_list(self, "/fulfillments", parameters, FULFILLMENT_LIST_PARAMETERS, answer)
Api_list_shipments(self, parameters, answer) ==
    Api_list(self, "/shipments", parameters, SHIPMENT_LIST_PARAMETERS, answer)

\* options.get(key)
DictGet(options, key) == IF key \in DOMAIN options.d THEN options.d[key] ELSE None

\* the checks of create_shipment_label, the same text in both facades
create_shipment_label_checks(options) ==
    Then(validate_parameters(options, CREATE_SHIPMENT_LABEL_OPTIONS), LAMBDA valid_options :
        Then(FirstRaised(<<
                 require_type(DictGet(options, "weight"), "ShipStationWeight"),
                 require_type(DictGet(options, "dimensions"), "ShipStationContainer"),
                 require_type(DictGet(options, "ship_to"), "ShipStationAddress"),
                 require_type(DictGet(options, "ship_from"), "ShipStationAddress"),
                 require_type(DictGet(options, "international_options"),
                              "ShipStationInternationalOptions"),
                 require_type(DictGet(options, "advanced_options"),
                              "ShipStationAdvancedOptions")>>),
             LAMBDA typed : Ok(valid_options)))

Api_create_shipment_label(self, options, answer) ==
    Checked(create_shipment_label_checks(options), LAMBDA valid_options :
        Api_post(self, "/shipments/createlabel", valid_options, answer))

\* for required_option in REQUIRED_RATE_OPTIONS: ... raise
MissingRateOption(options) ==
    \E i \in 1..Len(REQUIRED_RATE_OPTIONS) :
        ~Truthy(DictGet(options, REQUIRED_RATE_OPTIONS[i]))

\* the checks of get_rates, the same text in both facades
get_rates_checks(options) ==
    IF options.t # "dict" THEN Raise("AttributeError", "get")
    ELSE Then(FirstRaised(<<
                  require_type(DictGet(options, "weight"), "ShipStationWeight"),
                  require_type(DictGet(options, "dimensions"), "ShipStationContainer")>>),
              LAMBDA typed :
                Then(validate_parameters(options, GET_RATE_OPTIONS), LAMBDA valid_options :
                    IF MissingRateOption(options) THEN Raise("AttributeError", "raise")
                    ELSE Ok(valid_options)))

\* a get_rates that posts its options and checks them afterwards
Api_get_rates_posts_first(self, options, answer) ==
    LET posted == Api_post(self, "/shipments/getrates", options, answer)
        valid_options == get_rates_checks(options)
    IN IF valid_options.status # "ok" THEN Ended(valid_options, posted.reqs) ELSE posted

Api_get_rates(self, options, answer) ==
    Checked(get_rates_checks(options), LAMBDA valid_options :
        Api_post(self, "/shipments/getrates", valid_options, answer))

Api_void_label(self, shipment_id, answer) ==
    Api_post(self, "/shipments/voidlabel", shipment_id, answer)

\* the checks of list_stores, the same text in both facades: the outcome, with
\* the query parameters when they pass
list_stores_checks(show_inactive, marketplace_id) ==
    Then(FirstRaised(<<require_type(show_inactive, "bool"),
                               require_type(marketplace_id, "int")>>), LAMBDA typed :
        Ok(Dict([k \in (IF Truthy(show_inactive) THEN {"showInactive"} ELSE {})
                            \cup (IF Truthy(marketplace_id) THEN {"marketplaceId"} ELSE {})
                          |-> IF k = "showInactive" THEN show_inactive ELSE marketplace_id])))

Api_list_stores(self, show_inactive, marketplace_id, answer) ==
    Checked(list_stores_checks(show_inactive, marketplace_id), LAMBDA parameters :
        Api_get(self, "/stores", parameters, answer))

Api_get_store(self, store_id, answer) ==
    Api_get(self, "/stores/" \o PyStr(store_id), None, answer)

\* getattr(self, attribute) on a client, then its truth, as require_attribute
\* reads it: a client holds the attributes its constructor assigns
ClientAttributes == {"url", "key", "secret", "orders", "timeout", "debug"}

require_attribute_of_client(self, attribute) ==
    IF attribute \notin ClientAttributes THEN Raise("AttributeError", "getattr")
    ELSE IF CASE attribute = "url" -> self.url # ""
              [] attribute = "key" -> Truthy(self.key)
              [] attribute = "secret" -> Truthy(self.secret)
              [] attribute = "orders" -> self.orders # <<>>
              [] attribute = "timeout" -> self.timeout # 0
              [] attribute = "debug" -> self.debug
    THEN Ok(None)
    ELSE Raise("AttributeError", "require_attribute")

\* [self.require_attribute(m) for m in options]
RequireAttributes(self, options) ==
    FirstRaised([i \in 1..Len(options) |-> require_attribute_of_client(self, options[i])])

\* update_store up to its request, the same text in both facades: the name
\* status_mappings of the loop is bound nowhere
update_store_checks(self, options) ==
    Then(validate_parameters(options, UPDATE_STORE_OPTIONS), LAMBDA valid_options :
        Then(RequireAttributes(self, UPDATE_STORE_OPTIONS), LAMBDA required :
            Then(require_type(DictGet(valid_options, "status_mappings"), "list"),
                 LAMBDA typed : Raise("NameError", "status_mappings"))))

Api_update_store(self, options, answer) ==
    Checked(update_store_checks(self, options), LAMBDA checks :
        Api_put(self, "/stores/storeId", checks, answer))

Api_list_marketplaces(self, answer) == Api_get(self, "/stores/marketplaces/", None, answer)

\* json.dumps({"storeId": str(store_id)})
StoreIdBody(store_id) == JsonStr(Dict([storeId |-> Str(PyStr(store_id))]))

Api_deactivate_store(self, store_id, answer) ==
    Api_post(self, "/stores/deactivate", StoreIdBody(store_id), answer)

Api_reactivate_store(self, store_id, answer) ==
    Api_post(self, "/stores/reactivate", StoreIdBody(store_id), answer)

\* the check of list_users and its payload, the same text in both facades
list_users_checks(show_inactive) ==
    Then(require_type(show_inactive, "bool"), LAMBDA typed :
        Ok(JsonStr(Dict([showInactive |-> show_inactive]))))

Api_list_users(self, show_inactive, answer) ==
    Checked(list_users_checks(show_inactive), LAMBDA payload :
        Api_get(self, "/users/", payload, answer))

Api_get_warehouse(self, warehouse_id, answer) ==
    Api_get(self, "/warehouses/" \o PyStr(warehouse_id), None, answer)

Api_list_warehouses(self, answer) == Api_get(self, "/warehouses", None, answer)

Api_delete_warehouse(self, warehouse_id, answer) ==
    Api_delete(self, "/warehouses/" \o PyStr(warehouse_id), None, answer)

\* update_warehouse of api.py up to its request: the name Boolean of line 253
\* is bound nowhere
update_warehouse_checks(self, options) ==
    Then(validate_parameters(options, UPDATE_WAREHOUSE_OPTIONS), LAMBDA valid_options :
        Then(RequireAttributes(self, UPDATE_WAREHOUSE_OPTIONS), LAMBDA required :
            Then(FirstRaised(<<
                     require_type(DictGet(valid_options, "origin_address"),
                                  "ShipStationAddress"),
                     require_type(DictGet(valid_options, "return_address"),
                                  "ShipStationAddress"),
                     require_type(DictGet(valid_options, "create_date"),
                                  "datetime.datetime")>>),
                 LAMBDA typed : Raise("NameError", "Boolean"))))

Api_update_warehouse(self, warehouse_id, options, answer) ==
    Checked(update_warehouse_checks(self, options), LAMBDA checks :
        Api_put(self, "/stores/storeId", checks, answer))

Api_list_webhooks(self, answer) == Api_get(self, "/webhooks", None, answer)

Api_unsubscribe_to_webhook(self, webhook_id, answer) ==
    Api_delete(self, "/webhooks/" \o PyStr(webhook_id), None, answer)

\* subscribe_to_webhook up to its request, the same text in both facades: the
\* outcome, with the body when the checks pass
subscribe_to_webhook_checks(options) ==
    Then(FirstRaised(<<
             require_membership(Str("target_url"), SUBSCRIBE_TO_WEBHOOK_OPTIONS),
             require_membership(Str("event"), SUBSCRIBE_TO_WEBHOOK_OPTIONS)>>), LAMBDA named :
        IF options.t # "dict" THEN Raise("AttributeError", "get")
        ELSE Then(require_membership(DictGet(options, "event"),
                                     SUBSCRIBE_TO_WEBHOOK_EVENT_OPTIONS),
                  LAMBDA event : JsonDumps(options)))

Api_subscribe_to_webhook(self, options, answer) ==
    Checked(subscribe_to_webhook_checks(options), LAMBDA data :
        Api_post(self, "/webhooks/subscribe", data, answer))

\* what httpx answers: a response of httpx, which is no requests.Response
HttpxResponse(v) == [t |-> "httpx.Response", body |-> v]

\* r.json() in aio.py: r is whatever get() returned
HttpxJson(r) ==
    IF r.t # "httpx.Response" THEN Raise("AttributeError", "json")
    ELSE IF r.body.t = "notjson" THEN Raise("ValueError", "Response.json")
    ELSE Ok(r.body)

\* r.json().get(key)
JsonGet(r, key) ==
    Then(HttpxJson(r), LAMBDA body :
        IF body.t # "dict" THEN Raise("AttributeError", "get")
        ELSE Ok(DictGet(body, key)))

\* [object_type().from_json(x) for x in r.json().get(key)]
EachOf(r, key, object_type) ==
    Then(JsonGet(r, key), LAMBDA q :
        IF q.t # "list" THEN Raise("TypeError", "iter")
        ELSE FromJsonEach(q.l, object_type))

Aio_fetch_orders(self, parameters) ==
    Checked(fetch_orders_checks(parameters), LAMBDA valid_parameters :
        LET co == Aio_get(self, "/orders/list", valid_parameters)
        IN Unawaited(Ok(co), co))

\* the four async def operations, run by a caller that awaits them
Aio_list_carriers(self, answer) == Awaited(self, Aio_get(self, "/carriers/", None), answer)

Aio_get_carrier(self, carrier_code, answer) ==
    With(Awaited(self, Aio_get(self, "/carriers/getcarrier",
                               Dict([carrierCode |-> carrier_code])), answer),
         LAMBDA carrier :
            IF carrier.out.status # "ok" THEN carrier
            ELSE Ended(Then(HttpxJson(carrier.out.ret), LAMBDA body :
                            FromJson(New("ShipStationCarrier"), body).out),
                       carrier.reqs))

\* list_packages and list_services of aio.py
Aio_list_of(self, endpoint, carrier_code, object_type, answer) ==
    With(Awaited(self, Aio_get(self, endpoint, Dict([carrierCode |-> carrier_code])),
                 answer),
         LAMBDA r :
            IF r.out.status # "ok" THEN r
            ELSE Ended(Then(HttpxJson(r.out.ret), LAMBDA body :
                            ShipStationBase_object_list(body, object_type)),
                       r.reqs))

Aio_list_packages(self, carrier_code, answer) ==
    Aio_list_of(self, "/carriers/listpackages", carrier_code,
                "ShipStationCarrierPackage", answer)
Aio_list_services(self, carrier_code, answer) ==
    Aio_list_of(self, "/carriers/listservices", carrier_code,
                "ShipStationCarrierService", answer)

\* <object_type>().from_json(co) for the coroutine co that nothing awaited
FromJsonOf(co, object_type) == Unawaited(FromJson(New(object_type), co).out, co)

\* self.object_list(co, object_type) for the coroutine co that nothing awaited
ObjectListOf(co, object_type) == Unawaited(ShipStationBase_object_list(co, object_type), co)

Aio_get_customer(self, customer_id) ==
    FromJsonOf(Aio_get(self, "/customers/" \o PyStr(customer_id), None),
               "ShipStationCustomer")

\* list_customers and list_shipments of aio.py
Aio_list_each(self, endpoint, parameters, valid, key, object_type) ==
    Checked(validate_parameters(parameters, valid), LAMBDA valid_parameters :
        LET r == Aio_get(self, endpoint, valid_parameters)
        IN Unawaited(EachOf(r, key, object_type), r))

Aio_list_customers(self, parameters) ==
    Aio_list_each(self, "/customers", parameters, CUSTOMER_LIST_PARAMETERS,
                  "customers", "ShipStationCustomer")

Aio_list_fulfillments(self, parameters) ==
    Checked(validate_parameters(parameters, FULFILLMENT_LIST_PARAMETERS), LAMBDA valid_parameters :
        LET co == Aio_get(self, "/fulfillments", valid_parameters)
        IN Unawaited(Ok(co), co))

Aio_list_shipments(self, parameters) ==
    Aio_list_each(self, "/shipments", parameters, SHIPMENT_LIST_PARAMETERS,
                  "shipments", "ShipStationOrder")

Aio_create_shipment_label(self, options) ==
    Checked(create_shipment_label_checks(options), LAMBDA valid_options :
        LET co == Aio_post(self, "/shipments/createlabel", valid_options)
        IN Unawaited(Ok(co), co))

Aio_get_rates(self, options) ==
    Checked(get_rates_checks(options), LAMBDA valid_options :
        LET co == Aio_post(self, "/shipments/getrates", valid_options)
        IN Unawaited(Ok(co), co))

Aio_void_label(self, shipment_id) ==
    LET co == Aio_post(self, "/shipments/voidlabel", shipment_id)
    IN Unawaited(Ok(co), co)

Aio_list_marketplaces(self) ==
    ObjectListOf(Aio_get(self, "/stores/marketplaces/", None), "ShipStationMarketplace")

Aio_list_stores(self, show_inactive, marketplace_id) ==
    Checked(list_stores_checks(show_inactive, marketplace_id), LAMBDA parameters :
        ObjectListOf(Aio_get(self, "/stores", parameters), "ShipStationStore"))

Aio_get_store(self, store_id) ==
    FromJsonOf(Aio_get(self, "/stores/" \o PyStr(store_id), None), "ShipStationStore")

Aio_update_store(self, options) ==
    Checked(update_store_checks(self, options), LAMBDA checks :
        FromJsonOf(Aio_put(self, "/stores/storeId", checks), "ShipStationStore"))

Aio_deactivate_store(self, store_id) ==
    LET co == Aio_post(self, "/stores/deactivate", StoreIdBody(store_id))
    IN Unawaited(Ok(co), co)

Aio_reactivate_store(self, store_id) ==
    FromJsonOf(Aio_post(self, "/stores/reactivate", StoreIdBody(store_id)),
               "ShipStationStore")

Aio_list_users(self, show_inactive) ==
    Checked(list_users_checks(show_inactive), LAMBDA payload :
        ObjectListOf(Aio_get(self, "/users/", payload), "ShipStationUser"))

Aio_get_warehouse(self, warehouse_id) ==
    FromJsonOf(Aio_get(self, "/warehouses/" \o PyStr(warehouse_id), None),
               "ShipStationWarehouse")

Aio_list_warehouses(self) ==
    ObjectListOf(Aio_get(self, "/warehouses", None), "ShipStationWarehouse")

\* data[key] = data[key].as_dict()
WithDictOf(data, key) ==
    Then(AsDict(data.d[key]), LAMBDA d : Ok(Dict((key :> d) @@ data.d)))

\* create_warehouse of aio.py up to its request: the outcome, with the body
\* when the checks pass
create_warehouse_checks(data) ==
    IF data.t # "dict" THEN Raise("TypeError", "in")
    ELSE IF "origin_address" \notin DOMAIN data.d
    THEN Raise("AttributeError", "require_membership")
    ELSE Then(require_type(data.d["origin_address"], "ShipStationAddress"), LAMBDA typed :
         Then(WithDictOf(data, "origin_address"), LAMBDA origin :
            IF "return_address" \notin DOMAIN data.d
            THEN Raise("KeyError", "return_address")
            ELSE Then(IF Truthy(data.d["return_address"])
                      THEN WithDictOf(origin, "return_address")
                      ELSE Ok(origin), LAMBDA both :
                    JsonDumps(validate_parameters(both, CREATE_WAREHOUSE_OPTIONS).ret))))

Aio_create_warehouse(self, data) ==
    Checked(create_warehouse_checks(data), LAMBDA valid_options :
        LET co == Aio_post(self, "/warehouses/createwarehouse", valid_options)
        IN Unawaited(Ok(co), co))

Aio_delete_warehouse(self, warehouse_id) ==
    LET co == Aio_delete(self, "/warehouses/" \o PyStr(warehouse_id), None)
    IN Unawaited(Ok(co), co)

Aio_update_warehouse(self, warehouse) ==
    Checked(require_type(warehouse, "ShipStationWarehouse"), LAMBDA typed :
        IF warehouse.t # "instance" THEN Ended(Raise("AttributeError", "json"), <<>>)
        ELSE Checked(Json(warehouse), LAMBDA wh :
                LET co == Aio_put(self, "/warehouses/"
                              \o PyStr(GetAttr(warehouse, "warehouse_id")), wh)
                IN Unawaited(Ok(co), co)))

Aio_list_webhooks(self) ==
    LET co == Aio_get(self, "/webhooks", None)
    IN Unawaited(EachOf(co, "webhooks", "ShipStationWebhook"), co)

Aio_unsubscribe_to_webhook(self, webhook_id) ==
    LET co == Aio_delete(self, "/webhooks/" \o PyStr(webhook_id), None)
    IN Unawaited(Ok(co), co)

Aio_subscribe_to_webhook(self, options) ==
    Checked(subscribe_to_webhook_checks(options), LAMBDA data :
        LET co == Aio_post(self, "/webhooks/subscribe", data)
        IN Unawaited(Ok(co), co))

(***************************************************************************)
(* Specification SpecFacade: a caller makes a client of one of the two     *)
(* facades and calls its operations; the transport answers each request    *)
(* that reaches it.                                                        *)
(***************************************************************************)
MaxOrders == 2

\* the operations of api.py; aio.py has create_warehouse as well
ApiOperations ==
    {"add_order", "get_orders", "submit_orders", "fetch_orders", "list_carriers",
     "get_carrier", "list_packages", "list_services", "get_customer", "list_customers",
     "list_fulfillments", "list_shipments", "create_shipment_label", "get_rates",
     "void_label", "list_stores", "get_store", "update_store", "list_marketplaces",
     "deactivate_store", "reactivate_store", "list_users", "get_warehouse",
     "list_warehouses", "delete_warehouse", "update_warehouse", "list_webhooks",
     "unsubscribe_to_webhook", "subscribe_to_webhook"}
AioOperations == ApiOperations \cup {"create_warehouse"}

\* the async def operations of aio.py; the caller awaits them
AsyncOperations == {"list_carriers", "get_carrier", "list_packages", "list_services"}

\* the positional parameters an operation takes besides self
Arity(facade, op) ==
    CASE op \in {"get_orders", "submit_orders", "list_carriers", "list_marketplaces",
                 "list_warehouses", "list_webhooks"} -> 0
      [] op = "list_stores" -> 2
      [] op = "update_warehouse" -> IF facade = "api" THEN 2 ELSE 1
      [] OTHER -> 1

\* what the transport hands back for a body: requests.Response in api.py, the
\* response of httpx in aio.py
Answered(self, answer) ==
    IF answer = TransportFailure THEN answer
    ELSE IF self.facade = "api" THEN Response(answer) ELSE HttpxResponse(answer)

\* the operation op of api.py called with the arguments a
Api_call(self, op, a, r) ==
    CASE op = "fetch_orders" -> Api_fetch_orders(self, a[1], r)
      [] op = "list_carriers" -> Api_list_carriers(self, r)
      [] op = "get_carrier" -> Api_get_carrier(self, a[1], r)
      [] op = "list_packages" -> Api_list_packages(self, a[1], r)
      [] op = "list_services" -> Api_list_services(self, a[1], r)
      [] op = "get_customer" -> Api_get_customer(self, a[1], r)
      [] op = "list_customers" -> Api_list_customers(self, a[1], r)
      [] op = "list_fulfillments" -> Api_list_fulfillments(self, a[1], r)
      [] op = "list_shipments" -> Api_list_shipments(self, a[1], r)
      [] op = "create_shipment_label" -> Api_create_shipment_label(self, a[1], r)
      [] op = "get_rates" -> Api_get_rates(self, a[1], r)
      [] op = "void_label" -> Api_void_label(self, a[1], r)
      [] op = "list_stores" -> Api_list_stores(self, a[1], a[2], r)
      [] op = "get_store" -> Api_get_store(self, a[1], r)
      [] op = "update_store" -> Api_update_store(self, a[1], r)
      [] op = "list_marketplaces" -> Api_list_marketplaces(self, r)
      [] op = "deactivate_store" -> Api_deactivate_store(self, a[1], r)
      [] op = "reactivate_store" -> Api_reactivate_store(self, a[1], r)
      [] op = "list_users" -> Api_list_users(self, a[1], r)
      [] op = "get_warehouse" -> Api_get_warehouse(self, a[1], r)
      [] op = "list_warehouses" -> Api_list_warehouses(self, r)
      [] op = "delete_warehouse" -> Api_delete_warehouse(self, a[1], r)
      [] op = "update_warehouse" -> Api_update_warehouse(self, a[1], a[2], r)
      [] op = "list_webhooks" -> Api_list_webhooks(self, r)
      [] op = "unsubscribe_to_webhook" -> Api_unsubscribe_to_webhook(self, a[1], r)
      [] op = "subscribe_to_webhook" -> Api_subscribe_to_webhook(self, a[1], r)

\* the operation op of aio.py called with the arguments a
Aio_call(self, op, a, r) ==
    CASE op = "fetch_orders" -> Aio_fetch_orders(self, a[1])
      [] op = "list_carriers" -> Aio_list_carriers(self, r)
      [] op = "get_carrier" -> Aio_get_carrier(self, a[1], r)
      [] op = "list_packages" -> Aio_list_packages(self, a[1], r)
      [] op = "list_services" -> Aio_list_services(self, a[1], r)
      [] op = "get_customer" -> Aio_get_customer(self, a[1])
      [] op = "list_customers" -> Aio_list_customers(self, a[1])
      [] op = "list_fulfillments" -> Aio_list_fulfillments(self, a[1])
      [] op = "list_shipments" -> Aio_list_shipments(self, a[1])
      [] op = "create_shipment_label" -> Aio_create_shipment_label(self, a[1])
      [] op = "get_rates" -> Aio_get_rates(self, a[1])
      [] op = "void_label" -> Aio_void_label(self, a[1])
      [] op = "list_stores" -> Aio_list_stores(self, a[1], a[2])
      [] op = "get_store" -> Aio_get_store(self, a[1])
      [] op = "update_store" -> Aio_update_store(self, a[1])
      [] op = "list_marketplaces" -> Aio_list_marketplaces(self)
      [] op = "deactivate_store" -> Aio_deactivate_store(self, a[1])
      [] op = "reactivate_store" -> Aio_reactivate_store(self, a[1])
      [] op = "list_users" -> Aio_list_users(self, a[1])
      [] op = "get_warehouse" -> Aio_get_warehouse(self, a[1])
      [] op = "list_warehouses" -> Aio_list_warehouses(self)
      [] op = "create_warehouse" -> Aio_create_warehouse(self, a[1])
      [] op = "delete_warehouse" -> Aio_delete_warehouse(self, a[1])
      [] op = "update_warehouse" -> Aio_update_warehouse(self, a[1])
      [] op = "list_webhooks" -> Aio_list_webhooks(self)
      [] op = "unsubscribe_to_webhook" -> Aio_unsubscribe_to_webhook(self, a[1])
      [] op = "subscribe_to_webhook" -> Aio_subscribe_to_webhook(self, a[1])

\* self.<op>(*a) up to the body: the attribute lookup and the binding of the
\* arguments
Bound(self, op, a, body) ==
    IF op \notin (IF self.facade = "api" THEN ApiOperations ELSE AioOperations)
    THEN Ended(Raise("AttributeError", "getattr"), <<>>)
    ELSE IF Len(a) # Arity(self.facade, op)
    THEN Ended(Raise("TypeError", "arguments"), <<>>)
    ELSE body

\* self.<op>(*a) for an operation given by its name
Perform(self, op, a, answer) ==
    Bound(self, op, a,
          With(Answered(self, answer), LAMBDA r :
              IF self.facade = "api" THEN Api_call(self, op, a, r)
              ELSE Aio_call(self, op, a, r)))

\* the orders a caller offers to add_order: a freshly constructed order, whose
\* amounts are Decimal; an order whose amounts came from the wire as strings;
\* no order at all; something that is no order
DefaultOrder == ShipStationOrder_init(None, Str("1001"))
WireOrder ==
    FromJson(ShipStationOrder_init(None, Str("1002")),
             Dict([amountPaid |-> Str("0"), taxAmount |-> Str("0"),
                   shippingAmount |-> Str("0")])).self
OrderInputs == {DefaultOrder, WireOrder, None, Str("1003")}

\* the bodies the transport answers with, or its failure
TransportAnswers ==
    {TransportFailure, NotJson, Dict([name |-> Str("Ann")]),
     List(<<Dict([name |-> Str("Ann")])>>)}

\* what the transport answers to each post of submit_orders
RECURSIVE AnswerSeqs(_)
AnswerSeqs(n) ==
    IF n = 0 THEN {<<>>}
    ELSE {<<r>> \o q : r \in {TransportFailure, Response(Dict([orderId |-> IntV(1)]))},
                       q \in AnswerSeqs(n - 1)}

\* api.py hands the response back as it came: one JSON body stands for all
ApiAnswers == {TransportFailure, NotJson, Dict([name |-> Str("Ann")])}

\* the allowed-key collections _validate_parameters is handed, by name
ParameterSets ==
    [CUSTOMER_LIST_PARAMETERS |-> CUSTOMER_LIST_PARAMETERS,
     FULFILLMENT_LIST_PARAMETERS |-> FULFILLMENT_LIST_PARAMETERS,
     GET_RATE_OPTIONS |-> GET_RATE_OPTIONS]

Parameters ==
    {None, Str("page=2"), Dict([page_size |-> IntV(5), page |-> Str("2")]),
     Dict([bogus_key |-> IntV(1)])}
CarrierCodes == {Str("fedex")}
Identifiers == {IntV(42)}
Flags == {Bool(FALSE), Bool(TRUE), Str("yes")}
ListStoresArguments ==
    {<<Bool(FALSE), None>>, <<Bool(TRUE), IntV(7)>>, <<Str("yes"), None>>,
     <<Bool(FALSE), Str("7")>>}
AWeight == ShipStationWeight_init(Str("ounces"), IntV(3))
AnAddress ==
    ShipStationAddress_init(Str("Ann"), None, None, None, None, None, None, None,
                            None, None, None)
AContainer == ShipStationContainer_init(Str("inches"), IntV(1), IntV(2), IntV(3))
ShipmentOptions ==
    {None, Dict([weight |-> Str("heavy")]),
     Dict([carrier_code |-> Str("fedex"), weight |-> AWeight]), Dict([weight |-> AWeight]),
     Dict([weight |-> AWeight, dimensions |-> Str("big")]),
     Dict([carrier_code |-> Str("fedex"), weight |-> AWeight, dimensions |-> AContainer])}
AStoreUpdate ==
    Dict([store_id |-> IntV(1), store_name |-> Str("shop"),
          status_mappings |-> List(<<Dict([orderStatus |-> Str("shipped")])>>)])
StoreOptions == {Str("x"), Dict([store_id |-> IntV(1)]), AStoreUpdate}
AWarehouse ==
    FromJson(New("ShipStationWarehouse"),
             Dict([warehouseId |-> IntV(9), warehouseName |-> Str("main")])).self
AWarehouseUpdate ==
    Dict([warehouse_id |-> IntV(9), warehouse_name |-> Str("main"),
          origin_address |-> AnAddress])
WarehouseArguments ==
    {<<IntV(9), Dict([warehouse_name |-> Str("main")])>>, <<IntV(9), Str("x")>>,
     <<AWarehouse>>, <<Str("x")>>, <<IntV(9), AWarehouseUpdate>>}
WarehouseData ==
    {Dict([warehouse_name |-> Str("main")]),
     Dict([origin_address |-> Str("x"), return_address |-> None]),
     Dict([origin_address |-> AnAddress]),
     Dict([origin_address |-> AnAddress, return_address |-> AnAddress])}
WebhookOptions ==
    {None, Dict([event |-> Str("bogus")]),
     Dict([target_url |-> Str("http://h"), event |-> Str("ORDER_NOTIFY"),
           friendly_name |-> Str("h")])}

InitFacade ==
    /\ nm = NmIdle
    /\ ent = None
    /\ res = ResIdle
    /\ client = None
    /\ call = CallIdle

Returned(op, a, answer, done) ==
    [op |-> op, args |-> a, answer |-> answer, out |-> done.out, reqs |-> done.reqs]

\* ShipStation(key, secret, debug, timeout) of either facade, the timeout given
\* or left out
TimeoutInputs == {Omitted, IntV(5)}

NewClient ==
    \E facade \in {"api", "aio"}, key \in {None, Str("k")}, secret \in {None, Str("s")},
       debug \in BOOLEAN, timeout \in TimeoutInputs :
        LET made == ShipStation_init(facade, key, secret, debug, timeout)
        IN /\ client = None
           /\ client' = made.self
           /\ call' = Returned("__init__",
                               <<Str(facade), key, secret, Bool(debug), timeout>>,
                               None, Ended(made.out, <<>>))
           /\ UNCHANGED <<nm, ent, res>>

Call_add_order ==
    /\ client # None
    /\ Len(client.orders) < MaxOrders
    /\ \E order \in OrderInputs :
        LET done == ShipStation_add_order(client, order)
        IN /\ client' = done.self
           /\ call' = Returned("add_order", <<order>>, None, Ended(done.out, <<>>))
    /\ UNCHANGED <<nm, ent, res>>

Call_get_orders ==
    /\ client # None
    /\ call' = Returned("get_orders", <<>>, None, Ended(ShipStation_get_orders(client), <<>>))
    /\ UNCHANGED <<nm, ent, res, client>>

\* the transport answers the posts that reach it, one by one
Call_submit_orders ==
    /\ client # None
    /\ LET bodies == OrderBodies(client.orders)
       IN \/ /\ client.facade = "api"
             /\ \E answers \in AnswerSeqs(Len(client.orders)) :
                   call' = Returned("submit_orders", <<>>, List(answers),
                                    Api_submit_orders(client, bodies, answers))
          \/ /\ client.facade = "aio"
             /\ call' = Returned("submit_orders", <<>>, None,
                                 Aio_submit_orders(client, bodies))
    /\ UNCHANGED <<nm, ent, res, client>>

\* self._validate_parameters(parameters, valid_parameters)
Call_validate_parameters ==
    /\ client # None
    /\ \E parameters \in Parameters, valid \in DOMAIN ParameterSets :
        call' = Returned("_validate_parameters", <<parameters, Str(valid)>>, None,
                         Ended(validate_parameters(parameters, ParameterSets[valid]), <<>>))
    /\ UNCHANGED <<nm, ent, res, client>>

\* an awaited or synchronous operation gets the transport's answer; a coroutine
\* nothing awaits gets none
AnswersFor(self, op) ==
    IF self.facade = "api" THEN ApiAnswers
    ELSE IF op \in AsyncOperations THEN TransportAnswers
    ELSE {None}

\* client.<op>(*a): api(r) and aio(r) are the bodies of the operation in api.py
\* and in aio.py, given what the transport hands back
Does(op, a, api(_), aio(_)) ==
    /\ client # None
    /\ \E answer \in AnswersFor(client, op) :
        call' = Returned(op, a, answer,
                         Bound(client, op, a,
                               IF client.facade = "api"
                               THEN api(Answered(client, answer))
                               ELSE aio(Answered(client, answer))))
    /\ UNCHANGED <<nm, ent, res, client>>

Call_fetch_orders ==
    \E parameters \in Parameters :
        Does("fetch_orders", <<parameters>>,
             LAMBDA r : Api_fetch_orders(client, parameters, r),
             LAMBDA r : Aio_fetch_orders(client, parameters))

Call_list_carriers ==
    Does("list_carriers", <<>>,
         LAMBDA r : Api_list_carriers(client, r),
         LAMBDA r : Aio_list_carriers(client, r))

Call_get_carrier ==
    \E carrier_code \in CarrierCodes :
        Does("get_carrier", <<carrier_code>>,
             LAMBDA r : Api_get_carrier(client, carrier_code, r),
             LAMBDA r : Aio_get_carrier(client, carrier_code, r))

Call_list_packages ==
    \E carrier_code \in CarrierCodes :
        Does("list_packages", <<carrier_code>>,
             LAMBDA r : Api_list_packages(client, carrier_code, r),
             LAMBDA r : Aio_list_packages(client, carrier_code, r))

Call_list_services ==
    \E carrier_code \in CarrierCodes :
        Does("list_services", <<carrier_code>>,
             LAMBDA r : Api_list_services(client, carrier_code, r),
             LAMBDA r : Aio_list_services(client, carrier_code, r))

Call_get_customer ==
    \E customer_id \in Identifiers :
        Does("get_customer", <<customer_id>>,
             LAMBDA r : Api_get_customer(client, customer_id, r),
             LAMBDA r : Aio_get_customer(client, customer_id))

Call_list_customers ==
    \E parameters \in Parameters :
        Does("list_customers", <<parameters>>,
             LAMBDA r : Api_list_customers(client, parameters, r),
             LAMBDA r : Aio_list_customers(client, parameters))

Call_list_fulfillments ==
    \E parameters \in Parameters :
        Does("list_fulfillments", <<parameters>>,
             LAMBDA r : Api_list_fulfillments(client, parameters, r),
             LAMBDA r : Aio_list_fulfillments(client, parameters))

Call_list_shipments ==
    \E parameters \in Parameters :
        Does("list_shipments", <<parameters>>,
             LAMBDA r : Api_list_shipments(client, parameters, r),
             LAMBDA r : Aio_list_shipments(client, parameters))

Call_create_shipment_label ==
    \E options \in ShipmentOptions :
        Does("create_shipment_label", <<options>>,
             LAMBDA r : Api_create_shipment_label(client, options, r),
             LAMBDA r : Aio_create_shipment_label(client, options))

Call_get_rates ==
    \E options \in ShipmentOptions :
        Does("get_rates", <<options>>,
             LAMBDA r : Api_get_rates(client, options, r),
             LAMBDA r : Aio_get_rates(client, options))

Call_void_label ==
    \E shipment_id \in Identifiers :
        Does("void_label", <<shipment_id>>,
             LAMBDA r : Api_void_label(client, shipment_id, r),
             LAMBDA r : Aio_void_label(client, shipment_id))

Call_get_store ==
    \E store_id \in Identifiers :
        Does("get_store", <<store_id>>,
             LAMBDA r : Api_get_store(client, store_id, r),
             LAMBDA r : Aio_get_store(client, store_id))

Call_update_store ==
    \E options \in StoreOptions :
        Does("update_store", <<options>>,
             LAMBDA r : Api_update_store(client, options, r),
             LAMBDA r : Aio_update_store(client, options))

Call_list_marketplaces ==
    Does("list_marketplaces", <<>>,
         LAMBDA r : Api_list_marketplaces(client, r),
         LAMBDA r : Aio_list_marketplaces(client))

Call_deactivate_store ==
    \E store_id \in Identifiers :
        Does("deactivate_store", <<store_id>>,
             LAMBDA r : Api_deactivate_store(client, store_id, r),
             LAMBDA r : Aio_deactivate_store(client, store_id))

Call_reactivate_store ==
    \E store_id \in Identifiers :
        Does("reactivate_store", <<store_id>>,
             LAMBDA r : Api_reactivate_store(client, store_id, r),
             LAMBDA r : Aio_reactivate_store(client, store_id))

Call_list_users ==
    \E show_inactive \in Flags :
        Does("list_users", <<show_inactive>>,
             LAMBDA r : Api_list_users(client, show_inactive, r),
             LAMBDA r : Aio_list_users(client, show_inactive))

Call_get_warehouse ==
    \E warehouse_id \in Identifiers :
        Does("get_warehouse", <<warehouse_id>>,
             LAMBDA r : Api_get_warehouse(client, warehouse_id, r),
             LAMBDA r : Aio_get_warehouse(client, warehouse_id))

Call_list_warehouses ==
    Does("list_warehouses", <<>>,
         LAMBDA r : Api_list_warehouses(client, r),
         LAMBDA r : Aio_list_warehouses(client))

Call_create_warehouse ==
    \E data \in WarehouseData :
        Does("create_warehouse", <<data>>,
             LAMBDA r : Ended(Raise("AttributeError", "getattr"), <<>>),
             LAMBDA r : Aio_create_warehouse(client, data))

Call_delete_warehouse ==
    \E warehouse_id \in Identifiers :
        Does("delete_warehouse", <<warehouse_id>>,
             LAMBDA r : Api_delete_warehouse(client, warehouse_id, r),
             LAMBDA r : Aio_delete_warehouse(client, warehouse_id))

Call_list_webhooks ==
    Does("list_webhooks", <<>>,
         LAMBDA r : Api_list_webhooks(client, r),
         LAMBDA r : Aio_list_webhooks(client))

Call_unsubscribe_to_webhook ==
    \E webhook_id \in Identifiers :
        Does("unsubscribe_to_webhook", <<webhook_id>>,
             LAMBDA r : Api_unsubscribe_to_webhook(client, webhook_id, r),
             LAMBDA r : Aio_unsubscribe_to_webhook(client, webhook_id))

Call_subscribe_to_webhook ==
    \E options \in WebhookOptions :
        Does("subscribe_to_webhook", <<options>>,
             LAMBDA r : Api_subscribe_to_webhook(client, options, r),
             LAMBDA r : Aio_subscribe_to_webhook(client, options))

Call_list_stores ==
    \E a \in ListStoresArguments :
        Does("list_stores", a,
             LAMBDA r : Api_list_stores(client, a[1], a[2], r),
             LAMBDA r : Aio_list_stores(client, a[1], a[2]))

Call_update_warehouse ==
    \E a \in WarehouseArguments :
        Does("update_warehouse", a,
             LAMBDA r : Api_update_warehouse(client, a[1], a[2], r),
             LAMBDA r : Aio_update_warehouse(client, a[1]))

NextFacade ==
    \/ NewClient
    \/ Call_validate_parameters
    \/ Call_list_stores
    \/ Call_update_warehouse
    \/ Call_fetch_orders
    \/ Call_list_carriers
    \/ Call_get_carrier
    \/ Call_list_packages
    \/ Call_list_services
    \/ Call_get_customer
    \/ Call_list_customers
    \/ Call_list_fulfillments
    \/ Call_list_shipments
    \/ Call_create_shipment_label
    \/ Call_get_rates
    \/ Call_void_label
    \/ Call_get_store
    \/ Call_update_store
    \/ Call_list_marketplaces
    \/ Call_deactivate_store
    \/ Call_reactivate_store
    \/ Call_list_users
    \/ Call_get_warehouse
    \/ Call_list_warehouses
    \/ Call_create_warehouse
    \/ Call_delete_warehouse
    \/ Call_list_webhooks
    \/ Call_unsubscribe_to_webhook
    \/ Call_subscribe_to_webhook

SpecFacade == InitFacade /\ [][NextFacade]_vars

(***************************************************************************)
(* Specification SpecOrders: a caller makes a client, accumulates orders   *)
(* and submits them.                                                       *)
(***************************************************************************)
NextOrders == NewClient \/ Call_add_order \/ Call_get_orders \/ Call_submit_orders

SpecOrders == InitFacade /\ [][NextOrders]_vars

(***************************************************************************)
(* Claims about the facades                                                *)
(***************************************************************************)
\* C1: _validate_parameters fails when the mapping has a key outside the
\* allowed-key set, and otherwise returns the mapping under camelCase keys
\* with the same values.
C1_ValidateParametersRejectsUnknownKeys ==
    (call.op = "_validate_parameters" /\ call.args[1].t = "dict") =>
        LET parameters == call.args[1].d
            allowed == ParameterSets[call.args[2].s]
        IN IF DOMAIN parameters \ allowed # {}
           THEN call.out.status = "raised"
           ELSE call.out = Ok(Dict(CamelKeyed(parameters)))

\* C2: a facade call that ends with a validation error has issued no request:
\* every validation step of an operation precedes its request.
C2_ValidationPrecedesRequest == IsValidationError(call.out) => call.reqs = <<>>

\* C2 witness: get_rates was called without a required option and ended with
\* the validation error, having made no request
C2_Witness ==
    /\ call.op = "get_rates"
    /\ call.args[1].t = "dict"
    /\ call.out.status = "raised" /\ call.out.at = "raise"
    /\ call.reqs = <<>>

\* method, path, query parameters and body of each request of a call
Wire(reqs) ==
    [i \in 1..Len(reqs) |->
        [method |-> reqs[i].method, endpoint |-> reqs[i].endpoint,
         params |-> reqs[i].params, data |-> reqs[i].data]]

\* C3: for the same operation, the same inputs and a transport that answers
\* with a JSON object, the two facades accept or reject alike and make the
\* same requests (method, path, query parameters, body).
C3_FacadesAgree ==
    (/\ client # None
     /\ client.facade = "api"
     /\ call.op \in AioOperations
     /\ call.answer.t = "dict") =>
        LET other == Perform([client EXCEPT !.facade = "aio"], call.op, call.args,
                             call.answer)
        IN /\ call.out.status = other.out.status
           /\ Wire(call.reqs) = Wire(other.reqs)

\* the requests of a call that went to the transport as POST /orders/createorder
RECURSIVE OrderPosts(_)
OrderPosts(reqs) ==
    IF reqs = <<>> THEN <<>>
    ELSE (IF /\ Head(reqs).sent
             /\ Head(reqs).method = "POST"
             /\ Head(reqs).endpoint = "/orders/createorder"
          THEN <<Head(reqs).data>> ELSE <<>>) \o OrderPosts(Tail(reqs))

\* the bodies of the orders that serialize, in insertion order
RECURSIVE Serialized(_)
Serialized(bodies) ==
    IF bodies = <<>> THEN <<>>
    ELSE (IF Head(bodies).status = "ok" THEN <<Head(bodies).ret>> ELSE <<>>)
         \o Serialized(Tail(bodies))

\* C4: submit_orders posts every order of the accumulator that can be
\* serialized, once and in insertion order, whatever happened to the orders
\* before it.
C4_SubmitPostsEveryOrder ==
    call.op = "submit_orders" =>
        OrderPosts(call.reqs) = Serialized(OrderBodies(client.orders))

(***************************************************************************)
(* Specification SpecEntity: a caller holds one entity and calls its       *)
(* constructor and methods                                                 *)
(***************************************************************************)
\* arguments callers pass to set_status
StatusInputs == {None, Str(""), Str("shipped"), Str("bogus")}

\* wire objects handed to from_json and object_list
WireObjects ==
    {Dict([name |-> Str("Ann")]),
     Dict([orderStatus |-> Str("shipped")]),
     Dict([amountPaid |-> Str("0"), taxAmount |-> Str("0"), shippingAmount |-> Str("0")]),
     Dict([fooBar |-> Str("x")])}

\* what from_json is given: a mapping, its JSON text, a completed response, and
\* arguments that are none of these
JsonSources ==
    WireObjects
        \cup {JsonStr(Dict([name |-> Str("Ann")])), Str("oops"),
              Response(Dict([fooBar |-> Str("x")])), Response(NotJson),
              List(<<>>), None}

\* what object_list is given
ListSources ==
    {Dict([name |-> Str("Ann")]),
     List(<<>>),
     List(<<Dict([name |-> Str("Ann")]), Dict([name |-> Str("Bob")])>>),
     List(<<Dict([name |-> Str("Bob")]), Dict([name |-> Str("Ann")])>>),
     Response(Dict([name |-> Str("Ann")])),
     Response(List(<<Dict([name |-> Str("Ann")]), Dict([name |-> Str("Bob")])>>)),
     Response(NotJson)}

ObjectTypes == {"ShipStationUser", "ShipStationCarrierPackage", "ShipStationCarrierService"}

InitEntity ==
    /\ nm = NmIdle
    /\ ent = None
    /\ res = ResIdle
    /\ client = None
    /\ call = CallIdle

Called(op, arg, out) == [op |-> op, arg |-> arg, out |-> out]

\* a constructor call by a caller that holds nothing: the caller then holds
\* the new instance, or still nothing when the constructor raised
NewOrder ==
    \E order_key \in {None}, order_number \in {None, Str("1001")} :
        /\ ent = None
        /\ ent' = ShipStationOrder_init(order_key, order_number)
        /\ res' = Called("ShipStationOrder", List(<<order_key, order_number>>), Ok(None))
        /\ UNCHANGED <<nm, client, call>>

NewAddress ==
    \E name \in {None, Str("Ann")}, residential \in {None, Bool(TRUE), Bool(FALSE)} :
        /\ ent = None
        /\ ent' = ShipStationAddress_init(name, None, None, None, None, None, None,
                                          None, None, None, residential)
        /\ res' = Called("ShipStationAddress", List(<<name, residential>>), Ok(None))
        /\ UNCHANGED <<nm, client, call>>

NewItem ==
    \E quantity \in {None, IntV(2)}, unit_price \in {None, Decimal(5)} :
        /\ ent = None
        /\ ent' = ShipStationItem_init(None, Str("sku1"), None, None, quantity,
                                       unit_price, None, None)
        /\ res' = Called("ShipStationItem", List(<<quantity, unit_price>>), Ok(None))
        /\ UNCHANGED <<nm, client, call>>

NewCustomsItem ==
    \E description \in {None, Str(""), Str("toy")},
       value \in {None, Decimal(0), Decimal(5), IntV(5), Str("5")},
       harmonized_tariff_code \in {None, Str("9503")},
       country_of_origin \in {None, Str(""), Str("U"), Str("US"), Str("USA")} :
        LET made == ShipStationCustomsItem_init(description, IntV(1), value,
                                                harmonized_tariff_code, country_of_origin)
        IN /\ ent = None
           /\ ent' = made.self
           /\ res' = Called("ShipStationCustomsItem",
                            Dict([description |-> description, value |-> value,
                                  harmonized_tariff_code |-> harmonized_tariff_code,
                                  country_of_origin |-> country_of_origin]),
                            [made.out EXCEPT !.ret = None])
           /\ UNCHANGED <<nm, client, call>>

CallSetStatus ==
    /\ ent.t = "instance" /\ ent.cls = "ShipStationOrder"
    /\ \E status \in StatusInputs :
        LET done == ShipStationOrder_set_status(ent, status)
        IN /\ ent' = done.self
           /\ res' = Called("set_status", status, done.out)
    /\ UNCHANGED <<nm, client, call>>

CallFromJson ==
    /\ ent.t = "instance"
    /\ \E json_str \in JsonSources :
        LET done == FromJson(ent, json_str)
        IN /\ ent' = done.self
           /\ res' = Called("from_json", json_str, [done.out EXCEPT !.ret = None])
    /\ UNCHANGED <<nm, client, call>>

CallAsDict ==
    /\ ent.t = "instance"
    /\ res' = Called("as_dict", None, AsDict(ent))
    /\ UNCHANGED <<nm, ent, client, call>>

CallJson ==
    /\ ent.t = "instance"
    /\ res' = Called("json", None, Json(ent))
    /\ UNCHANGED <<nm, ent, client, call>>

\* object_list reads nothing of self: it is called on a bare ShipStationBase
CallObjectList ==
    /\ ent = None
    /\ \E r \in ListSources, object_type \in ObjectTypes :
        res' = Called("object_list", List(<<r, Str(object_type)>>),
                      ShipStationBase_object_list(r, object_type))
    /\ UNCHANGED <<nm, ent, client, call>>

NextEntity ==
    \/ NewOrder
    \/ NewAddress
    \/ NewItem
    \/ NewCustomsItem
    \/ CallSetStatus
    \/ CallFromJson
    \/ CallAsDict
    \/ CallJson
    \/ CallObjectList

SpecEntity == InitEntity /\ [][NextEntity]_vars

\* C5 as stated: set_status with a non-null value outside ORDER_STATUS_VALUES
\* raises and leaves order_status as it was; with a value inside the set it
\* makes order_status that value.
C5_SetStatusRejectsNonNull ==
    [][res'.op = "set_status" =>
        /\ (res'.arg # None /\ ~InStrings(res'.arg, ORDER_STATUS_VALUES)) =>
              /\ res'.out.status = "raised"
              /\ GetAttr(ent', "order_status") = GetAttr(ent, "order_status")
        /\ InStrings(res'.arg, ORDER_STATUS_VALUES) =>
              GetAttr(ent', "order_status") = res'.arg]_vars

\* C5 amended: set_status with a truthy value outside ORDER_STATUS_VALUES raises
\* and leaves order_status as it was; with a value inside the set it makes
\* order_status that value; with a falsy value (null, or a non-null one such as
\* the empty string) it raises nothing and makes order_status null.
C5_SetStatusRejectsTruthy ==
    [][res'.op = "set_status" =>
        /\ (Truthy(res'.arg) /\ ~InStrings(res'.arg, ORDER_STATUS_VALUES)) =>
              /\ res'.out.status = "raised"
              /\ GetAttr(ent', "order_status") = GetAttr(ent, "order_status")
        /\ InStrings(res'.arg, ORDER_STATUS_VALUES) =>
              /\ res'.out.status = "ok"
              /\ GetAttr(ent', "order_status") = res'.arg
        /\ ~Truthy(res'.arg) =>
              /\ res'.out.status = "ok"
              /\ GetAttr(ent', "order_status") = None]_vars

\* a rejected set_status on an order whose status was "shipped"
C5_Witness ==
    /\ res.op = "set_status"
    /\ res.arg = Str("bogus")
    /\ res.out.status = "raised"
    /\ GetAttr(ent, "order_status") = Str("shipped")

\* C6 as stated: after any sequence of construction, setter and from_json calls
\* the attributes an entity holds are among the fields its type declares.
C6_ClosedFieldSet ==
    ent.t = "instance" => AttrsOf(ent) \subseteq DeclaredFields(ent.cls)

\* the values json() hands to the encoder, when it got that far
Encoded(out) == out.ret.json.d

\* C7 as stated: json() of every entity type, Order included, turns each bool
\* into "true"/"false", each int or Decimal into its string and each nested
\* entity into its wire object, so that none of them reaches the JSON encoder.
C7_JsonCoercesEveryField ==
    res.op = "json" =>
        /\ ~(res.out.status = "raised" /\ res.out.at = "json.dumps")
        /\ res.out.status = "ok" =>
              \A k \in DOMAIN Encoded(res.out) :
                  Encoded(res.out)[k].t \notin {"bool", "int", "Decimal", "instance"}

\* the entities object_list is to return for the wire objects q, in order
Parsed(q, object_type) ==
    List([i \in 1..Len(q) |-> FromJson(New(object_type), q[i]).out.ret])

\* C9 as stated: object_list returns a one-element list for a decoded single
\* wire object, one entity per element in input order for a decoded list or a
\* response whose body is a list, and a one-element list for a response whose
\* body is a single object.
C9_ObjectList ==
    res.op = "object_list" =>
        LET r == res.arg.l[1]
            object_type == res.arg.l[2].s
        IN /\ r.t = "dict" =>
                  res.out = Ok(Parsed(<<r>>, object_type))
           /\ r.t = "list" =>
                  res.out = Ok(Parsed(r.l, object_type))
           /\ (r.t = "Response" /\ r.body.t = "list") =>
                  res.out = Ok(Parsed(r.body.l, object_type))
           /\ (r.t = "Response" /\ r.body.t = "dict") =>
                  res.out = Ok(Parsed(<<r.body>>, object_type))

\* the length of a country code, -1 when there is none
CountryLen(v) == IF v.t = "str" THEN Len(v.s) ELSE -1

\* C10 as stated: constructing a ShipStationCustomsItem fails when description,
\* harmonized_tariff_code or country_of_origin is absent, when country_of_origin
\* is not two characters long, or when value is not a Decimal (null included);
\* it succeeds otherwise.
C10_CustomsItemValueRequired ==
    res.op = "ShipStationCustomsItem" =>
        (res.out.status = "raised" <=>
            \/ ~Truthy(res.arg.d.description)
            \/ ~Truthy(res.arg.d.harmonized_tariff_code)
            \/ ~Truthy(res.arg.d.country_of_origin)
            \/ CountryLen(res.arg.d.country_of_origin) # 2
            \/ res.arg.d.value.t # "Decimal")

\* C10 amended: construction fails when description, harmonized_tariff_code or
\* country_of_origin is absent, when country_of_origin is not two characters
\* long, or when value is neither null nor a Decimal; it succeeds when all three
\* are present, country_of_origin has length 2 and value is a Decimal or null.
C10_CustomsItemValueOptional ==
    res.op = "ShipStationCustomsItem" =>
        /\ (res.out.status = "raised" <=>
              \/ ~Truthy(res.arg.d.description)
              \/ ~Truthy(res.arg.d.harmonized_tariff_code)
              \/ ~Truthy(res.arg.d.country_of_origin)
              \/ CountryLen(res.arg.d.country_of_origin) # 2
              \/ res.arg.d.value.t \notin {"Decimal", "none"})
        /\ res.out.status = "ok" =>
              /\ ent.t = "instance" /\ ent.cls = "ShipStationCustomsItem"
              /\ GetAttr(ent, "value") = res.arg.d.value
              /\ GetAttr(ent, "country_of_origin") = res.arg.d.country_of_origin

\* a three-letter country code rejected with everything else in order
C10_Witness ==
    /\ res.op = "ShipStationCustomsItem"
    /\ res.arg.d.description = Str("toy")
    /\ res.arg.d.harmonized_tariff_code = Str("9503")
    /\ res.arg.d.value = Decimal(5)
    /\ res.arg.d.country_of_origin = Str("USA")
    /\ res.out.status = "raised"


(***************************************************************************)
(* Specification SpecParts: a caller builds the parts of a shipment (a     *)
(* weight, a container, an item, international options, an order), calls   *)
(* their setters and puts them together                                    *)
(***************************************************************************)
\* shipstation.constants is not among the sources; the members below are the
\* enumerated sets the specification speaks of
WEIGHT_UNIT_OPTIONS == {"pounds", "ounces", "grams"}

\* set_units(self) without the membership check
ShipStationWeight_set_units_unchecked(self) ==
    IF ~HasAttr(self, "units") THEN [out |-> Raise("AttributeError", "getattr"), self |-> self]
    ELSE [out |-> Ok(None), self |-> SetAttr(self, "WeightUnits", GetAttr(self, "units"))]

\* set_units(self) validates the units given at construction and only then
\* copies them to WeightUnits, the attribute as_dict reads
ShipStationWeight_set_units(self) ==
    IF ~HasAttr(self, "units") THEN [out |-> Raise("AttributeError", "getattr"), self |-> self]
    ELSE With(require_membership(GetAttr(self, "units"), WEIGHT_UNIT_OPTIONS), LAMBDA d :
            IF d.status # "ok" THEN [out |-> d, self |-> self]
            ELSE [out |-> Ok(None), self |-> SetAttr(self, "WeightUnits", GetAttr(self, "units"))])

CONTENTS_VALUES == {"merchandise", "documents", "gift", "returned_goods", "sample"}
NON_DELIVERY_OPTIONS == {"return_to_sender", "treat_as_abandoned"}

\* a setter that stores whatever truthy contents it is given
ShipStationInternationalOptions_set_contents_unchecked(self, contents) ==
    IF Truthy(contents)
    THEN [out |-> Ok(None), self |-> SetAttr(self, "contents", contents)]
    ELSE [out |-> Ok(None), self |-> SetAttr(self, "contents", None)]

ShipStationInternationalOptions_set_contents(self, contents) ==
    IF Truthy(contents)
    THEN IF ~InStrings(contents, CONTENTS_VALUES)
         THEN [out |-> Raise("AttributeError", "raise"), self |-> self]
         ELSE [out |-> Ok(None), self |-> SetAttr(self, "contents", contents)]
    ELSE [out |-> Ok(None), self |-> SetAttr(self, "contents", None)]

ShipStationInternationalOptions_set_non_delivery(self, non_delivery) ==
    IF Truthy(non_delivery)
    THEN IF ~InStrings(non_delivery, NON_DELIVERY_OPTIONS)
         THEN [out |-> Raise("AttributeError", "raise"), self |-> self]
         ELSE [out |-> Ok(None), self |-> SetAttr(self, "non_delivery", non_delivery)]
    ELSE [out |-> Ok(None), self |-> SetAttr(self, "non_delivery", None)]

\* the outcome of the constructor call and the instance it yields: nothing,
\* when one of the two setters raised
ShipStationInternationalOptions_init(contents, non_delivery) ==
    With(ThenSelf(ShipStationInternationalOptions_set_contents(
                      Construct("ShipStationInternationalOptions",
                                [customs_items |-> List(<<>>)]),
                      contents),
                  LAMBDA self :
                      ShipStationInternationalOptions_set_non_delivery(self, non_delivery)),
         LAMBDA made : IF made.out.status # "ok" THEN [out |-> made.out, self |-> None]
                       ELSE [out |-> Ok(made.self), self |-> made.self])

\* self.require_type(value, type); self.<attribute> = value
SetTyped(self, value, type, attribute) ==
    With(require_type(value, type), LAMBDA d :
        IF d.status # "ok" THEN [out |-> d, self |-> self]
        ELSE [out |-> Ok(None), self |-> SetAttr(self, attribute, value)])

ShipStationOrder_set_shipping_address(self, shipping_address) ==
    SetTyped(self, shipping_address, "ShipStationAddress", "ship_to")

ShipStationOrder_set_billing_address(self, billing_address) ==
    SetTyped(self, billing_address, "ShipStationAddress", "bill_to")

\* a setter that leaves out the type check
ShipStationOrder_set_dimensions_unchecked(self, dimensions) ==
    [out |-> Ok(None), self |-> SetAttr(self, "dimensions", dimensions)]

ShipStationOrder_set_dimensions(self, dimensions) ==
    SetTyped(self, dimensions, "ShipStationContainer", "dimensions")

ShipStationOrder_set_international_options(self, options) ==
    SetTyped(self, options, "ShipStationInternationalOptions", "international_options")

\* units and values callers give a weight
UnitInputs == {None, Str("ounces"), Str("stones")}
ValueInputs == {None, IntV(3), Decimal(3)}

NewWeight ==
    \E units \in UnitInputs, value \in ValueInputs :
        /\ ent = None
        /\ ent' = ShipStationWeight_init(units, value)
        /\ res' = Called("ShipStationWeight", List(<<units, value>>), Ok(None))
        /\ UNCHANGED <<nm, client, call>>

CallSetUnits ==
    /\ ent.t = "instance" /\ ent.cls = "ShipStationWeight"
    /\ With(ShipStationWeight_set_units(ent), LAMBDA done :
          /\ ent' = done.self
          /\ res' = Called("set_units", None, done.out))
    /\ UNCHANGED <<nm, client, call>>

\* arguments callers pass to set_contents and set_non_delivery
ContentsInputs == {None, Str(""), Str("gift"), Str("bogus")}
NonDeliveryInputs == {None, Str(""), Str("return_to_sender"), Str("bogus")}

NewInternationalOptions ==
    \E contents \in ContentsInputs, non_delivery \in NonDeliveryInputs :
        /\ ent = None
        /\ With(ShipStationInternationalOptions_init(contents, non_delivery), LAMBDA made :
              /\ ent' = made.self
              /\ res' = Called("ShipStationInternationalOptions",
                               List(<<contents, non_delivery>>),
                               [made.out EXCEPT !.ret = None]))
        /\ UNCHANGED <<nm, client, call>>

CallSetContents ==
    /\ ent.t = "instance" /\ ent.cls = "ShipStationInternationalOptions"
    /\ \E contents \in ContentsInputs :
        With(ShipStationInternationalOptions_set_contents(ent, contents), LAMBDA done :
            /\ ent' = done.self
            /\ res' = Called("set_contents", contents, done.out))
    /\ UNCHANGED <<nm, client, call>>

CallSetNonDelivery ==
    /\ ent.t = "instance" /\ ent.cls = "ShipStationInternationalOptions"
    /\ \E non_delivery \in NonDeliveryInputs :
        With(ShipStationInternationalOptions_set_non_delivery(ent, non_delivery), LAMBDA done :
            /\ ent' = done.self
            /\ res' = Called("set_non_delivery", non_delivery, done.out))
    /\ UNCHANGED <<nm, client, call>>

\* what callers hand to the setters of an order: nothing, a bare mapping, and
\* instances of the entity types
SomeOptions == ShipStationInternationalOptions_init(Str("gift"), Str("return_to_sender")).self
PartInputs == {None, Dict([name |-> Str("Ann")]), AnAddress, AContainer, SomeOptions}

CallSetShippingAddress ==
    /\ ent.t = "instance" /\ ent.cls = "ShipStationOrder"
    /\ \E shipping_address \in PartInputs :
        With(ShipStationOrder_set_shipping_address(ent, shipping_address), LAMBDA done :
            /\ ent' = done.self
            /\ res' = Called("set_shipping_address", shipping_address, done.out))
    /\ UNCHANGED <<nm, client, call>>

CallSetBillingAddress ==
    /\ ent.t = "instance" /\ ent.cls = "ShipStationOrder"
    /\ \E billing_address \in PartInputs :
        With(ShipStationOrder_set_billing_address(ent, billing_address), LAMBDA done :
            /\ ent' = done.self
            /\ res' = Called("set_billing_address", billing_address, done.out))
    /\ UNCHANGED <<nm, client, call>>

CallSetDimensions ==
    /\ ent.t = "instance" /\ ent.cls = "ShipStationOrder"
    /\ \E dimensions \in PartInputs :
        With(ShipStationOrder_set_dimensions(ent, dimensions), LAMBDA done :
            /\ ent' = done.self
            /\ res' = Called("set_dimensions", dimensions, done.out))
    /\ UNCHANGED <<nm, client, call>>

CallSetInternationalOptions ==
    /\ ent.t = "instance" /\ ent.cls = "ShipStationOrder"
    /\ \E options \in PartInputs :
        With(ShipStationOrder_set_international_options(ent, options), LAMBDA done :
            /\ ent' = done.self
            /\ res' = Called("set_international_options", options, done.out))
    /\ UNCHANGED <<nm, client, call>>

\* what callers hand to require_type: values and the types to test them for
ACarrierService ==
    ShipStationCarrierPackage_init("ShipStationCarrierService", None, None, None, None, None)
RequireItems ==
    {None, Str("x"), IntV(1), Bool(TRUE), Decimal(1), Dict([name |-> Str("Ann")]),
     List(<<>>), AWeight, AnAddress, AContainer, ACarrierService}
RequireTypes ==
    {"str", "int", "bool", "Decimal", "dict", "ShipStationWeight", "ShipStationAddress",
     "ShipStationContainer", "ShipStationCarrierPackage", "ShipStationBase"}

\* require_type reads nothing of self: it is called on a bare ShipStationBase
CallRequireType ==
    /\ ent = None
    /\ \E item \in RequireItems, required_type \in RequireTypes :
        res' = Called("require_type", List(<<item, Str(required_type)>>),
                      require_type(item, required_type))
    /\ UNCHANGED <<nm, ent, client, call>>

\* the caller lets go of the entity it holds
Drop ==
    /\ ent # None
    /\ ent' = None
    /\ res' = ResIdle
    /\ UNCHANGED <<nm, client, call>>

NextParts ==
    \/ NewWeight
    \/ CallSetUnits
    \/ NewInternationalOptions
    \/ CallSetContents
    \/ CallSetNonDelivery
    \/ NewOrder
    \/ CallSetShippingAddress
    \/ CallSetBillingAddress
    \/ CallSetDimensions
    \/ CallSetInternationalOptions
    \/ CallRequireType
    \/ CallAsDict
    \/ Drop

SpecParts == InitEntity /\ [][NextParts]_vars

\* C11: a weight on which set_units has not succeeded (WeightUnits is still
\* null) is never serialized: as_dict on it returns no wire object.
C11_UnvalidatedWeightNotSerialized ==
    (/\ res.op = "as_dict"
     /\ ent.t = "instance" /\ ent.cls = "ShipStationWeight"
     /\ GetAttr(ent, "WeightUnits") = None)
        => res.out.status # "ok"

\* the setters of an order that take an entity, with the type each requires
\* and the attribute each assigns
OrderSetters ==
    {<<"set_shipping_address", "ShipStationAddress", "ship_to">>,
     <<"set_billing_address", "ShipStationAddress", "bill_to">>,
     <<"set_dimensions", "ShipStationContainer", "dimensions">>,
     <<"set_international_options", "ShipStationInternationalOptions",
       "international_options">>}
OwnedParts == {"ship_to", "bill_to", "dimensions", "international_options"}

\* C12 as stated: each of the four setters rejects an argument that is not an
\* instance of its entity type, and a rejected call leaves ship_to, bill_to,
\* dimensions and international_options as they were.
C12_SettersRejectNonInstances ==
    [][\A m \in OrderSetters :
          res'.op = m[1] =>
              /\ ~IsInstance(res'.arg, m[2]) => res'.out.status = "raised"
              /\ res'.out.status = "raised" =>
                    \A a \in OwnedParts : GetAttr(ent', a) = GetAttr(ent, a)]_vars

\* C12 amended: each of the four setters rejects a non-null argument that is
\* not an instance of its entity type (a bare mapping among them) and then
\* leaves the four attributes as they were; it accepts null and instances of
\* the type, and then the attribute it assigns holds the argument.
C12_SettersRejectNonNullNonInstances ==
    [][\A m \in OrderSetters :
          res'.op = m[1] =>
              /\ (res'.arg # None /\ ~IsInstance(res'.arg, m[2])) =>
                    /\ res'.out.status = "raised"
                    /\ \A a \in OwnedParts : GetAttr(ent', a) = GetAttr(ent, a)
              /\ (res'.arg = None \/ IsInstance(res'.arg, m[2])) =>
                    /\ res'.out.status = "ok"
                    /\ GetAttr(ent', m[3]) = res'.arg]_vars

\* set_dimensions has rejected a bare mapping on an order that has a container
C12_Witness ==
    /\ res.op = "set_dimensions"
    /\ res.arg = Dict([name |-> Str("Ann")])
    /\ res.out.status = "raised"
    /\ ent.t = "instance" /\ ent.cls = "ShipStationOrder"
    /\ GetAttr(ent, "dimensions") = AContainer

\* C13: require_type(x, T) never fails when x is null, whatever T is; for a
\* non-null x it fails exactly when x is not an instance of T.
C13_RequireType ==
    res.op = "require_type" =>
        /\ res.arg.l[1] = None => res.out.status = "ok"
        /\ res.arg.l[1] # None =>
              (res.out.status = "raised" <=> ~IsInstance(res.arg.l[1], res.arg.l[2].s))

\* require_type(None, Decimal) has returned
C13_Witness ==
    /\ res.op = "require_type"
    /\ res.arg = List(<<None, Str("Decimal")>>)
    /\ res.out.status = "ok"

\* require_type has rejected a weight where a container is required
C13_WitnessRejected ==
    /\ res.op = "require_type"
    /\ res.arg = List(<<AWeight, Str("ShipStationContainer")>>)
    /\ res.out.status = "raised"

(***************************************************************************)
(* Specification SpecWeight: a caller fills an order with items and a      *)
(* container and asks for its weight                                       *)
(***************************************************************************)
ShipStationItem_set_weight(self, weight) ==
    SetTyped(self, weight, "ShipStationWeight", "weight")

ShipStationContainer_set_weight(self, weight) ==
    SetTyped(self, weight, "ShipStationWeight", "weight")

\* self.items.append(item)
ShipStationOrder_add_item(self, item) ==
    IF GetAttr(self, "items").t # "list"
    THEN [out |-> Raise("AttributeError", "append"), self |-> self]
    ELSE [out |-> Ok(None),
          self |-> SetAttr(self, "items", List(Append(GetAttr(self, "items").l, item)))]

\* the longest list of items an order is given
MaxItems == 2

\* an item of the given quantity whose weight has the given value
WeighedItem(quantity, value) ==
    ShipStationItem_set_weight(
        ShipStationItem_init(None, Str("sku1"), None, None, quantity, None, None, None),
        ShipStationWeight_init(Str("ounces"), value)).self

\* a container whose weight has the given value
WeighedContainer(value) ==
    ShipStationContainer_set_weight(AContainer, ShipStationWeight_init(Str("ounces"), value)).self

\* the items callers add: two that are weighed (3 ounces twice, an eighth of
\* an ounce once), one without a weight and one whose weight has no value
ItemInputs ==
    {WeighedItem(IntV(2), IntV(3)), WeighedItem(IntV(1), Float(125)),
     ShipStationItem_init(None, Str("sku1"), None, None, IntV(1), None, None, None),
     WeighedItem(IntV(2), None)}

\* the containers callers set: none, one without a weight and two with one
ContainerInputs == {None, AContainer, WeighedContainer(IntV(4)), WeighedContainer(Float(375))}

CallAddItem ==
    /\ ent.t = "instance" /\ ent.cls = "ShipStationOrder"
    /\ Len(GetAttr(ent, "items").l) < MaxItems
    /\ \E item \in ItemInputs :
        With(ShipStationOrder_add_item(ent, item), LAMBDA done :
            /\ ent' = done.self
            /\ res' = Called("add_item", item, done.out))
    /\ UNCHANGED <<nm, client, call>>

CallSetContainer ==
    /\ ent.t = "instance" /\ ent.cls = "ShipStationOrder"
    /\ \E dimensions \in ContainerInputs :
        With(ShipStationOrder_set_dimensions(ent, dimensions), LAMBDA done :
            /\ ent' = done.self
            /\ res' = Called("set_dimensions", dimensions, done.out))
    /\ UNCHANGED <<nm, client, call>>

CallGetWeight ==
    /\ ent.t = "instance" /\ ent.cls = "ShipStationOrder"
    /\ res' = Called("get_weight", None, ShipStationOrder_get_weight(ent))
    /\ UNCHANGED <<nm, ent, client, call>>

NextWeight ==
    \/ NewOrder
    \/ CallAddItem
    \/ CallSetContainer
    \/ CallGetWeight
    \/ Drop

SpecWeight == InitEntity /\ [][NextWeight]_vars

\* the items of the order the caller holds
ItemsOf(order) == GetAttr(order, "items").l

\* every item has a weight and a quantity
AllWeighed(order) ==
    \A i \in 1..Len(ItemsOf(order)) :
        /\ GetAttr(ItemsOf(order)[i], "weight") # None
        /\ GetAttr(ItemsOf(order)[i], "quantity") # None

\* every item has a weight whose value is a number, and a quantity that is one
AllWeighedByNumbers(order) ==
    \A i \in 1..Len(ItemsOf(order)) :
        /\ GetAttr(ItemsOf(order)[i], "weight") # None
        /\ IsNumber(GetAttr(GetAttr(ItemsOf(order)[i], "weight"), "value"))
        /\ IsNumber(GetAttr(ItemsOf(order)[i], "quantity"))

\* the container's weight counts: dimensions and its weight are set
ContainerCounts(order) ==
    /\ GetAttr(order, "dimensions") # None
    /\ GetAttr(GetAttr(order, "dimensions"), "weight") # None

\* the thousandths of weight.value * quantity summed over the items from the
\* i-th on
RECURSIVE ItemsMilli(_, _)
ItemsMilli(items, i) ==
    IF i > Len(items) THEN 0
    ELSE (NumberOf(GetAttr(GetAttr(items[i], "weight"), "value"))
              * NumberOf(GetAttr(items[i], "quantity"))) \div 1000
         + ItemsMilli(items, i + 1)

\* the thousandths the claim expects: the items, plus the container's weight
\* value only when it counts
ExpectedMilli(order) ==
    ItemsMilli(ItemsOf(order), 1)
        + (IF ContainerCounts(order)
           THEN NumberOf(GetAttr(GetAttr(GetAttr(order, "dimensions"), "weight"), "value"))
           ELSE 0)

\* C14 as stated: for an order whose items all have a weight and a quantity,
\* get_weight returns units "ounces" and the sum over the items of
\* weight.value * quantity, plus the container's weight value when dimensions
\* and its weight are set.
C14_GetWeightIsSum ==
    (res.op = "get_weight" /\ AllWeighed(ent)) =>
        /\ res.out.status = "ok"
        /\ res.out.ret.d.units = Str("ounces")
        /\ NumberOf(res.out.ret.d.value) = ExpectedMilli(ent)

\* C14 amended: when moreover every weight value and quantity is a number,
\* get_weight returns units "ounces" and that sum rounded to two decimal
\* places, a tie going to the even hundredth.
C14_GetWeightIsRoundedSum ==
    (/\ res.op = "get_weight"
     /\ AllWeighedByNumbers(ent)
     /\ ContainerCounts(ent) =>
            IsNumber(GetAttr(GetAttr(GetAttr(ent, "dimensions"), "weight"), "value")))
        => /\ res.out.status = "ok"
           /\ res.out.ret.d.units = Str("ounces")
           /\ NumberOf(res.out.ret.d.value) = RoundHalfEven(ExpectedMilli(ent))

\* get_weight of an order with one item of quantity 2 and weight value 3 and
\* no dimensions has returned the value 6
C14_Witness ==
    /\ res.op = "get_weight"
    /\ ent.t = "instance" /\ ent.cls = "ShipStationOrder"
    /\ ItemsOf(ent) = <<WeighedItem(IntV(2), IntV(3))>>
    /\ GetAttr(ent, "dimensions") = None
    /\ res.out = Ok(Dict([units |-> Str("ounces"), value |-> IntV(6)]))

\* get_weight of an order with one item of an eighth of an ounce and a
\* container of three eighths has returned one half
C14_WitnessContainer ==
    /\ res.op = "get_weight"
    /\ ent.t = "instance" /\ ent.cls = "ShipStationOrder"
    /\ ItemsOf(ent) = <<WeighedItem(IntV(1), Float(125))>>
    /\ GetAttr(ent, "dimensions") = WeighedContainer(Float(375))
    /\ res.out = Ok(Dict([units |-> Str("ounces"), value |-> Float(500)]))

\* the call ended with an exception and had made no request
RaisedBeforeSending == call.out.status = "raised" /\ call.reqs = <<>>

\* the call made exactly one request, a GET of /orders/list whose query
\* parameters are those of p under camelCase keys, the values as they were.  In
\* api.py the request has gone to the transport when the call returns; in aio.py
\* fetch_orders hands its caller the coroutine of the request.
OneGetOfOrders(p) ==
    /\ Len(call.reqs) = 1
    /\ call.reqs[1].method = "GET"
    /\ call.reqs[1].endpoint = "/orders/list"
    /\ call.reqs[1].params.t = "dict"
    /\ DOMAIN call.reqs[1].params.d = {to_camel_case(k) : k \in DOMAIN p.d}
    /\ \A k \in DOMAIN p.d : call.reqs[1].params.d[to_camel_case(k)] = p.d[k]
    /\ IF client.facade = "api" THEN call.reqs[1].sent
       ELSE call.out = Ok(Coroutine(call.reqs[1]))

HasUnknownKey(p) == p.t = "dict" /\ DOMAIN p.d \ ORDER_LIST_PARAMETERS # {}

\* C15 as stated: fetch_orders raises before sending exactly when the
\* parameters contain a key outside ORDER_LIST_PARAMETERS; otherwise it issues
\* exactly one GET to /orders/list with the camelCase-keyed parameters.
C15_FetchOrdersRejectsUnknownKeysOnly ==
    (call.op = "fetch_orders" /\ Len(call.args) = 1) =>
        /\ RaisedBeforeSending <=> HasUnknownKey(call.args[1])
        /\ ~HasUnknownKey(call.args[1]) => OneGetOfOrders(call.args[1])

\* C15 amended: fetch_orders raises before sending exactly when the parameters
\* are not a mapping or contain a key outside ORDER_LIST_PARAMETERS; otherwise
\* it issues exactly one GET to /orders/list with the camelCase-keyed
\* parameters.
C15_FetchOrdersRejectsUnknownKeysAndNonMappings ==
    (call.op = "fetch_orders" /\ Len(call.args) = 1) =>
        /\ RaisedBeforeSending <=>
              (call.args[1].t # "dict" \/ HasUnknownKey(call.args[1]))
        /\ (call.args[1].t = "dict" /\ ~HasUnknownKey(call.args[1])) =>
              OneGetOfOrders(call.args[1])

\* fetch_orders with page_size and page has made its GET with pageSize and page
C15_Witness ==
    /\ call.op = "fetch_orders"
    /\ call.args = <<Dict([page_size |-> IntV(5), page |-> Str("2")])>>
    /\ Len(call.reqs) = 1
    /\ call.reqs[1].params = Dict([pageSize |-> IntV(5), page |-> Str("2")])

\* fetch_orders has rejected a key outside the set
C15_WitnessRejected ==
    /\ call.op = "fetch_orders"
    /\ call.args = <<Dict([bogus_key |-> IntV(1)])>>
    /\ RaisedBeforeSending

\* the timeout a client is to use: the one given at construction, 1 second
\* when none was given
ConfiguredTimeout(timeout) == IF timeout = Omitted THEN 1 ELSE timeout.n

\* C16 as stated: in both facades a client constructed with key and secret
\* exists and has the timeout given at construction (the default when none was
\* given); no operation changes it; every request of the client carries it.
C16_TimeoutFixedAtConstruction ==
    /\ [](/\ (call.op = "__init__" /\ call.args[2] # None /\ call.args[3] # None) =>
                /\ call.out.status = "ok"
                /\ client # None
                /\ client.timeout = ConfiguredTimeout(call.args[5])
          /\ (client # None /\ call.op # "__init__") =>
                \A i \in 1..Len(call.reqs) : call.reqs[i].timeout = client.timeout)
    /\ [][client # None => client'.timeout = client.timeout]_vars

\* the setters of ShipStationInternationalOptions, with the set each checks
\* against and the attribute each assigns
OptionSetters ==
    {<<"set_contents", CONTENTS_VALUES, "contents">>,
     <<"set_non_delivery", NON_DELIVERY_OPTIONS, "non_delivery">>}

\* C17 as stated: the constructor and the two setters reject a non-null
\* contents outside CONTENTS_VALUES and a non-null non_delivery outside
\* NON_DELIVERY_OPTIONS; null is accepted and stores null; a rejected setter
\* call leaves the stored value as it was.
C17_OptionsRejectNonNull ==
    [][/\ \A m \in OptionSetters :
            res'.op = m[1] =>
                /\ (res'.arg # None /\ ~InStrings(res'.arg, m[2])) =>
                      /\ res'.out.status = "raised"
                      /\ GetAttr(ent', m[3]) = GetAttr(ent, m[3])
                /\ res'.arg = None =>
                      /\ res'.out.status = "ok"
                      /\ GetAttr(ent', m[3]) = None
       /\ res'.op = "ShipStationInternationalOptions" =>
            /\ (res'.arg.l[1] # None /\ ~InStrings(res'.arg.l[1], CONTENTS_VALUES)) =>
                  res'.out.status = "raised"
            /\ (res'.arg.l[2] # None /\ ~InStrings(res'.arg.l[2], NON_DELIVERY_OPTIONS)) =>
                  res'.out.status = "raised"]_vars

\* the value a setter stores for an accepted argument: the argument when it is
\* truthy, null otherwise
StoredFor(arg) == IF Truthy(arg) THEN arg ELSE None

\* C17 amended: the constructor and the two setters reject a truthy value
\* outside the set, and a rejected setter call leaves the stored value as it
\* was; a value of the set is stored; a falsy value (null, or a non-null one
\* such as the empty string) is accepted and stores null.
C17_OptionsRejectTruthy ==
    [][/\ \A m \in OptionSetters :
            res'.op = m[1] =>
                /\ (Truthy(res'.arg) /\ ~InStrings(res'.arg, m[2])) =>
                      /\ res'.out.status = "raised"
                      /\ GetAttr(ent', m[3]) = GetAttr(ent, m[3])
                /\ (~Truthy(res'.arg) \/ InStrings(res'.arg, m[2])) =>
                      /\ res'.out.status = "ok"
                      /\ GetAttr(ent', m[3]) = StoredFor(res'.arg)
       /\ res'.op = "ShipStationInternationalOptions" =>
            IF \/ Truthy(res'.arg.l[1]) /\ ~InStrings(res'.arg.l[1], CONTENTS_VALUES)
               \/ Truthy(res'.arg.l[2]) /\ ~InStrings(res'.arg.l[2], NON_DELIVERY_OPTIONS)
            THEN res'.out.status = "raised" /\ ent' = None
            ELSE /\ res'.out.status = "ok"
                 /\ GetAttr(ent', "contents") = StoredFor(res'.arg.l[1])
                 /\ GetAttr(ent', "non_delivery") = StoredFor(res'.arg.l[2])]_vars

\* set_contents has rejected "bogus" on options whose contents stay "gift"
C17_Witness ==
    /\ res.op = "set_contents"
    /\ res.arg = Str("bogus")
    /\ res.out.status = "raised"
    /\ ent.t = "instance" /\ ent.cls = "ShipStationInternationalOptions"
    /\ GetAttr(ent, "contents") = Str("gift")

\* the options lack weight or dimensions, or hold for one of them a value
\* that is not a ShipStationWeight / ShipStationContainer
WeightOrDimensionsUnfit(options) ==
    \/ "weight" \notin DOMAIN options.d
    \/ "dimensions" \notin DOMAIN options.d
    \/ ~IsInstance(options.d["weight"], "ShipStationWeight")
    \/ ~IsInstance(options.d["dimensions"], "ShipStationContainer")

\* C18 as stated: get_rates and create_shipment_label fail before submission
\* when the weight option or the dimensions option is absent, or is present
\* but not a ShipStationWeight / ShipStationContainer.
C18_WeightAndDimensionsRequired ==
    (/\ call.op \in {"get_rates", "create_shipment_label"}
     /\ Len(call.args) = 1
     /\ call.args[1].t = "dict"
     /\ WeightOrDimensionsUnfit(call.args[1]))
        => RaisedBeforeSending

\* C19: an operation of the asynchronous facade that reaches the transport
\* makes exactly one request, and that request has been executed (awaited)
\* before the operation uses or returns its result.  The formula lets pass
\* also an operation that hands the coroutine of its one request to its
\* caller, who awaits it.
C19_AioAwaitsItsRequest ==
    (/\ client # None
     /\ client.facade = "aio"
     /\ call.op # "__init__"
     /\ call.reqs # <<>>)
        => /\ Len(call.reqs) = 1
           /\ \/ call.reqs[1].sent
              \/ call.out = Ok(Coroutine(call.reqs[1]))

(***************************************************************************)
(* Specification SpecRoundTrip: a caller constructs an entity, converts it *)
(* to its wire object and reads that into a fresh entity of the same type  *)
(***************************************************************************)
\* ShipStationWebhook(name=name): every slot but store is assigned
ShipStationWebhook_named(name) == SetAttr(ShipStationWebhook_init, "name", name)

\* type(e)(): the constructor of the class called without arguments
Fresh(cls) ==
    CASE cls = "ShipStationWeight" -> ShipStationWeight_init(None, None)
      [] cls = "ShipStationItem" ->
            ShipStationItem_init(None, None, None, None, None, None, None, None)
      [] cls = "ShipStationInternationalOptions" ->
            ShipStationInternationalOptions_init(None, Str("return_to_sender")).self
      [] OTHER -> New(cls)

\* type(e)().from_json(e.as_dict()): the fresh entity, or the exception
RoundTrip(e) ==
    Then(AsDict(e), LAMBDA d :
        With(FromJson(Fresh(e.cls), d), LAMBDA done :
            IF done.out.status # "ok" THEN done.out ELSE Ok(done.self)))

NewWebhook ==
    \E name \in {None, Str("hook")} :
        /\ ent = None
        /\ ent' = ShipStationWebhook_named(name)
        /\ res' = Called("ShipStationWebhook", name, Ok(None))
        /\ UNCHANGED <<nm, client, call>>

NewUser ==
    \E name \in {None, Str("Ann")}, user_id \in {None, IntV(7), Str("7")},
       user_name \in {None, Str("ann")} :
        /\ ent = None
        /\ ent' = ShipStationUser_init(name, user_id, user_name)
        /\ res' = Called("ShipStationUser", List(<<name, user_id, user_name>>), Ok(None))
        /\ UNCHANGED <<nm, client, call>>

NewCarrierPackage ==
    \E cls \in {"ShipStationCarrierPackage", "ShipStationCarrierService"},
       code \in {None, Str("package")}, domestic \in {None, Bool(TRUE)},
       name \in {None, Str("Package")} :
        /\ ent = None
        /\ ent' = ShipStationCarrierPackage_init(cls, Str("fedex"), code, domestic, None, name)
        /\ res' = Called(cls, List(<<code, domestic, name>>), Ok(None))
        /\ UNCHANGED <<nm, client, call>>

CallRoundTrip ==
    /\ ent.t = "instance"
    /\ res' = Called("round_trip", None, RoundTrip(ent))
    /\ UNCHANGED <<nm, ent, client, call>>

NextRoundTrip ==
    \/ NewOrder
    \/ NewAddress
    \/ NewItem
    \/ NewWeight
    \/ NewInternationalOptions
    \/ NewWebhook
    \/ NewUser
    \/ NewCarrierPackage
    \/ CallRoundTrip
    \/ Drop

SpecRoundTrip == InitEntity /\ [][NextRoundTrip]_vars

\* the value is a string or null
StringOrNull(v) == v = None \/ (v.t = "str" /\ "s" \in DOMAIN v)

\* C20: for every entity e built through its constructor,
\* from_json(as_dict(e)) on a fresh entity of e's type returns that entity,
\* and it holds every attribute of e whose value is a string or null, with
\* the same value.
C20_RoundTripKeepsStringsAndNulls ==
    res.op = "round_trip" =>
        /\ res.out.status = "ok"
        /\ \A a \in AttrsOf(ent) :
              StringOrNull(GetAttr(ent, a)) =>
                  /\ HasAttr(res.out.ret, a)
                  /\ GetAttr(res.out.ret, a) = GetAttr(ent, a)

\* the options of an update_store or update_warehouse(warehouse_id, options)
\* call
UpdateOptions == call.args[Len(call.args)]

\* the attributes the update named by op requires
RequiredFor(op) ==
    IF op = "update_store" THEN UPDATE_STORE_OPTIONS ELSE UPDATE_WAREHOUSE_OPTIONS

\* every required attribute is in the options with a truthy value
AllRequiredGiven(op, options) ==
    /\ options.t = "dict"
    /\ \A i \in 1..Len(RequiredFor(op)) :
          /\ RequiredFor(op)[i] \in DOMAIN options.d
          /\ Truthy(options.d[RequiredFor(op)[i]])

\* the options an update checks by type have the type it asks for
UpdateTyped(op, options) ==
    /\ op = "update_store" => IsInstance(DictGet(options, "status_mappings"), "list")
    /\ op = "update_warehouse" =>
          IsInstance(DictGet(options, "origin_address"), "ShipStationAddress")

\* the value as the wire carries it: an entity by its as_dict
WireForm(v) == IF v.t = "instance" THEN AsDict(v).ret ELSE v

\* the call made exactly one request, a PUT whose data has one camelCase key
\* for each option, with the option's value in wire form
OnePutOf(options) ==
    /\ Len(call.reqs) = 1
    /\ call.reqs[1].method = "PUT"
    /\ call.reqs[1].data.t = "dict"
    /\ DOMAIN call.reqs[1].data.d = {to_camel_case(k) : k \in DOMAIN options.d}
    /\ \A k \in DOMAIN options.d :
          call.reqs[1].data.d[to_camel_case(k)] = WireForm(options.d[k])

\* the calls of the updates that take the caller's options: update_store of
\* either facade and update_warehouse(warehouse_id, options) of api.py
IsOptionsUpdate ==
    /\ call.op \in {"update_store", "update_warehouse"}
    /\ Len(call.args) = (IF call.op = "update_store" THEN 1 ELSE 2)
    /\ call.op = "update_warehouse" => client.facade = "api"

\* C21: update_store and update_warehouse raise before any request when a
\* required attribute is missing or falsy in the caller's options, and when
\* every required attribute is present and correctly typed they issue exactly
\* one PUT whose payload carries the options, nested Address entities in wire
\* form.
C21_UpdatesRequireThenPut ==
    IsOptionsUpdate =>
        IF AllRequiredGiven(call.op, UpdateOptions)
        THEN UpdateTyped(call.op, UpdateOptions) => OnePutOf(UpdateOptions)
        ELSE RaisedBeforeSending

\* C21, the half that holds: an update whose options lack a required
\* attribute raises before any request
C21_IncompleteUpdateRaises ==
    (IsOptionsUpdate /\ ~AllRequiredGiven(call.op, UpdateOptions)) => RaisedBeforeSending

\* the arguments of a construction are those the constructor of the facade
\* has: key, secret and debug, and in aio.py timeout
ConstructorBinds == ~(call.args[1] = Str("api") /\ call.args[5] # Omitted)

\* C22: constructing a client of either facade without a key or without a
\* secret fails at once and leaves no client state (url, orders, timeout,
\* debug); with both supplied, among the arguments the constructor has,
\* construction succeeds and the order accumulator of the client is empty.
C22_ConstructionNeedsKeyAndSecret ==
    call.op = "__init__" =>
        IF call.args[2] = None \/ call.args[3] = None
        THEN call.out.status = "raised" /\ call.reqs = <<>> /\ client = None
        ELSE ConstructorBinds =>
                /\ call.out = Ok(None)
                /\ client # None
                /\ client.orders = <<>>
                /\ client.key = call.args[2]
                /\ client.secret = call.args[3]

\* a construction with a key and without a secret has failed
C22_Witness ==
    /\ call.op = "__init__"
    /\ call.args[2] = Str("k")
    /\ call.args[3] = None
    /\ call.out = Raise("AttributeError", "raise")
    /\ client = None

\* a construction with both has made a client of each facade
C22_WitnessMade ==
    /\ call.op = "__init__"
    /\ call.args[1] = Str("aio")
    /\ call.out = Ok(None)
    /\ client.orders = <<>>

\* every element of the order accumulator is a ShipStationOrder
AccumulatorHoldsOrders ==
    client # None =>
        \A i \in 1..Len(client.orders) : IsInstance(client.orders[i], "ShipStationOrder")

\* an add_order that ends with an exception leaves the accumulator as it was
RejectedAddKeepsOrders ==
    (client # None /\ call'.op = "add_order" /\ call'.out.status = "raised")
        => client'.orders = client.orders

\* C23: after any sequence of add_order calls, successful or rejected, every
\* element of the order accumulator is a ShipStationOrder instance, and a
\* rejected add_order leaves the accumulator unchanged.
C23_AccumulatorHoldsOnlyOrders ==
    []AccumulatorHoldsOrders /\ [][RejectedAddKeepsOrders]_vars

\* C23, the consequence drawn from it: submit_orders meets no element of the
\* accumulator that has no as_dict
C23_SubmitMeetsOnlyOrders ==
    call.op = "submit_orders" => call.out # Raise("AttributeError", "as_dict")

\* C23, the half that holds: a rejected add_order leaves the accumulator
\* unchanged
C23_RejectedAddKeepsOrders == [][RejectedAddKeepsOrders]_vars

\* the sequence p begins the sequence q
BeginsWith(q, p) == Len(p) <= Len(q) /\ SubSeq(q, 1, Len(p)) = p

\* submit_orders leaves the client, the accumulator with it, as it was
SubmitKeepsOrders == call'.op = "submit_orders" => client' = client

\* an operation on a client leaves the accumulator as it was or appends to it
OrdersGrowByAppends == client # None => BeginsWith(client'.orders, client.orders)

\* the order posts of a submit_orders on a client whose accumulator is orders,
\* the transport answering with answers
PostsOfSubmit(self, orders, answers) ==
    OrderPosts((IF self.facade = "api"
                THEN Api_submit_orders(self, OrderBodies(orders), answers)
                ELSE Aio_submit_orders(self, OrderBodies(orders))).reqs)

\* a submit_orders made when the accumulator held its first n orders, and one
\* made now: the posts of the later one begin with the posts of the earlier
ResubmitPostsAgain ==
    client # None =>
        \A n \in 0..Len(client.orders) :
            \A first \in AnswerSeqs(n), second \in AnswerSeqs(Len(client.orders)) :
                BeginsWith(PostsOfSubmit(client, client.orders, second),
                           PostsOfSubmit(client, SubSeq(client.orders, 1, n), first))

\* C24: submit_orders leaves the order accumulator unchanged, the accumulator
\* only ever grows by appends, and so in a sequence add_order* ; submit_orders ;
\* add_order* ; submit_orders the second submit_orders posts again every order
\* the first one posted.
C24_SubmitKeepsAndRepostsOrders ==
    /\ [][SubmitKeepsOrders]_vars
    /\ [][OrdersGrowByAppends]_vars
    /\ []ResubmitPostsAgain

\* C24, the part that holds: submit_orders leaves the accumulator unchanged
\* and the accumulator only grows by appends
C24_AccumulatorOnlyGrows == [][SubmitKeepsOrders]_vars /\ [][OrdersGrowByAppends]_vars

(***************************************************************************)
(* Specification SpecUnits: a caller holds a weight, assigns its units,    *)
(* validates them with set_units and reads them back                       *)
(***************************************************************************)
ShipStationWeight_get_units(self) ==
    IF ~HasAttr(self, "WeightUnits") THEN Raise("AttributeError", "getattr")
    ELSE Ok(GetAttr(self, "WeightUnits"))

\* units callers assign to a weight they hold
AssignedUnits == {None, Str("ounces"), Str("grams"), Str("stones")}

\* weight.units = units
AssignUnits ==
    \E units \in AssignedUnits :
        /\ ent.t = "instance" /\ ent.cls = "ShipStationWeight"
        /\ ent' = SetAttr(ent, "units", units)
        /\ res' = Called("units=", units, Ok(None))
        /\ UNCHANGED <<nm, client, call>>

CallGetUnits ==
    /\ ent.t = "instance" /\ ent.cls = "ShipStationWeight"
    /\ res' = Called("get_units", None, ShipStationWeight_get_units(ent))
    /\ UNCHANGED <<nm, ent, client, call>>

NextUnits ==
    \/ NewWeight
    \/ AssignUnits
    \/ CallSetUnits
    \/ CallGetUnits
    \/ CallAsDict
    \/ Drop

SpecUnits == InitEntity /\ [][NextUnits]_vars

\* the value is null or one of the weight units
NullOrWeightUnit(v) == v = None \/ (v.t = "str" /\ v.s \in WEIGHT_UNIT_OPTIONS)

\* the validated units of the weight the caller holds are null or a weight
\* unit, and get_units and as_dict give them out
ValidatedUnitsAreUnits ==
    (ent.t = "instance" /\ ent.cls = "ShipStationWeight") =>
        /\ NullOrWeightUnit(GetAttr(ent, "WeightUnits"))
        /\ res.op = "get_units" => res.out = Ok(GetAttr(ent, "WeightUnits"))
        /\ res.op = "as_dict" =>
              /\ res.out.status = "ok"
              /\ res.out.ret.d.units = GetAttr(ent, "WeightUnits")

\* a step on a weight: a set_units that succeeds makes the validated units
\* the units the weight had; one that fails, an assignment to units, and a read
\* leave the validated units as they were
ValidatedUnitsStep ==
    (ent.t = "instance" /\ ent'.t = "instance") =>
        /\ (res'.op = "set_units" /\ res'.out.status = "ok") =>
              /\ GetAttr(ent', "WeightUnits") = GetAttr(ent, "units")
              /\ GetAttr(ent', "units") = GetAttr(ent, "units")
        /\ (res'.op = "set_units" /\ res'.out.status # "ok") => ent' = ent
        /\ res'.op = "units=" =>
              /\ GetAttr(ent', "WeightUnits") = GetAttr(ent, "WeightUnits")
              /\ GetAttr(ent', "units") = res'.arg
        /\ res'.op \in {"get_units", "as_dict"} => ent' = ent

\* C25: after any sequence of assignments to a weight's units and set_units
\* calls, get_units() and the units of as_dict are null or a member of
\* WEIGHT_UNIT_OPTIONS, and are the units the weight had at its most recent
\* successful set_units: a failed set_units leaves them unchanged, and so does
\* assigning units without calling set_units.
C25_ValidatedUnitsFollowSetUnits ==
    []ValidatedUnitsAreUnits /\ [][ValidatedUnitsStep]_vars

\* units were validated as ounces, then assigned grams and not validated:
\* get_units still gives ounces
C25_Witness ==
    /\ ent.t = "instance" /\ ent.cls = "ShipStationWeight"
    /\ GetAttr(ent, "units") = Str("grams")
    /\ GetAttr(ent, "WeightUnits") = Str("ounces")
    /\ res = Called("get_units", None, Ok(Str("ounces")))

\* a set_units on units that are no weight unit has failed and left the
\* validated units
C25_WitnessRejected ==
    /\ ent.t = "instance" /\ ent.cls = "ShipStationWeight"
    /\ GetAttr(ent, "units") = Str("stones")
    /\ GetAttr(ent, "WeightUnits") = Str("ounces")
    /\ res.op = "set_units"
    /\ res.out = Raise("AttributeError", "require_membership")

\* the wire object d has one camelCase key for each field the type of e
\* declares, and under it the value e holds for the field
OneKeyPerDeclaredField(e, d) ==
    /\ d.t = "dict"
    /\ DOMAIN d.d = {to_camel_case(k) : k \in DeclaredFields(e.cls)}
    /\ \A k \in DeclaredFields(e.cls) :
          /\ HasAttr(e, k)
          /\ d.d[to_camel_case(k)] = GetAttr(e, k)

\* C26: for an entity of a type that declares a fixed field list, as_dict
\* returns exactly one camelCase key per declared field with the field's
\* current value, after any sequence of from_json calls, also ones whose
\* source has keys that are no declared fields.
C26_AsDictHasDeclaredFields ==
    (res.op = "as_dict" /\ ent.t = "instance" /\ ent.cls \in SlottedClasses) =>
        /\ res.out.status = "ok"
        /\ OneKeyPerDeclaredField(ent, res.out.ret)

\* C26 for an address that holds its declared fields only
C26_AsDictOfDeclaredAddress ==
    (/\ res.op = "as_dict" /\ ent.t = "instance" /\ ent.cls = "ShipStationAddress"
     /\ DOMAIN ent.dict = {}) =>
        /\ res.out.status = "ok"
        /\ OneKeyPerDeclaredField(ent, res.out.ret)

\* C26 fails for an address: as_dict after from_json of a source with the
\* undeclared key fooBar
C26_AddressLosesDeclaredFields ==
    ~(/\ res.op = "as_dict" /\ ent.t = "instance" /\ ent.cls = "ShipStationAddress"
      /\ res.out = Ok(Dict([fooBar |-> Str("x")])))

(***************************************************************************)
(* Specification SpecOrderDict: a caller builds an order from items, a     *)
(* container, addresses and international options, and asks for its wire   *)
(* object                                                                  *)
(***************************************************************************)
NextOrderDict ==
    \/ NewOrder
    \/ CallAddItem
    \/ CallSetContainer
    \/ CallSetShippingAddress
    \/ CallSetBillingAddress
    \/ CallSetInternationalOptions
    \/ CallAsDict
    \/ Drop

SpecOrderDict == InitEntity /\ [][NextOrderDict]_vars

\* the wire object of an item or a container: its fields under camelCase
\* keys, the weight by its own wire object when one is set
WireWithWeight(x) ==
    With(ShipStationBase_as_dict(x).ret, LAMBDA d :
        IF Truthy(GetAttr(x, "weight"))
        THEN Dict(("weight" :> ShipStationWeight_as_dict(GetAttr(x, "weight")).ret) @@ d.d)
        ELSE d)

\* the keys of an order's wire object that as_dict computes
ComputedOrderKeys ==
    {"items", "dimensions", "billTo", "shipTo", "weight", "internationalOptions"}

\* C27: for every order reachable through its constructor, add_item,
\* set_dimensions, set_shipping_address, set_billing_address and
\* set_international_options, with items and containers that have a weight or
\* none, as_dict completes without error; its result has the keys items,
\* dimensions, billTo, shipTo, weight and internationalOptions, and items and
\* dimensions hold the wire objects of the owned items and container, their
\* weight included when set.
C27_OrderAsDictCompletes ==
    (res.op = "as_dict" /\ ent.t = "instance" /\ ent.cls = "ShipStationOrder") =>
        /\ res.out.status = "ok"
        /\ ComputedOrderKeys \subseteq DOMAIN res.out.ret.d
        /\ res.out.ret.d.items =
              List([i \in 1..Len(ItemsOf(ent)) |-> WireWithWeight(ItemsOf(ent)[i])])
        /\ res.out.ret.d.dimensions =
              (IF Truthy(GetAttr(ent, "dimensions"))
               THEN WireWithWeight(GetAttr(ent, "dimensions")) ELSE None)

\* C27 for an order without items whose container, if any, has no weight
C27_BareOrderAsDictCompletes ==
    (/\ res.op = "as_dict" /\ ent.t = "instance" /\ ent.cls = "ShipStationOrder"
     /\ ItemsOf(ent) = <<>>
     /\ ~ContainerCounts(ent)) =>
        /\ res.out.status = "ok"
        /\ ComputedOrderKeys \subseteq DOMAIN res.out.ret.d
        /\ res.out.ret.d.dimensions =
              (IF Truthy(GetAttr(ent, "dimensions"))
               THEN WireWithWeight(GetAttr(ent, "dimensions")) ELSE None)

\* as_dict of an order never ends in the NameError of an item's or a
\* container's as_dict
C27_NoNameError ==
    (res.op = "as_dict" /\ ent.t = "instance" /\ ent.cls = "ShipStationOrder") =>
        res.out # Raise("NameError", "__setattr__")

\* as_dict of an order never ends in get_weight for want of an item's weight
C27_NoMissingWeight ==
    (res.op = "as_dict" /\ ent.t = "instance" /\ ent.cls = "ShipStationOrder") =>
        ~(res.out.status = "raised" /\ res.out.exc = "AttributeError")

====
